---- MODULE Spec2Model ----
(***************************************************************************)
(* A model of the tachyon shared-memory IPC core: the single-consumer ring *)
(* (MpscQueue), the fan-out Queue built from one ring per consumer, and    *)
(* the futex-backed mutex.  Every action is one atomic access to shared    *)
(* memory (one lock-prefixed instruction, one volatile load or store, or   *)
(* one futex system call) together with the thread-local computation that  *)
(* follows it in the source.                                               *)
(***************************************************************************)
EXTENDS Integers, Sequences, FiniteSets, TLC

(* ------------------------------ bounds -------------------------------- *)

\* Producer threads that share the ring.
NumProducers == 2
\* Items each producer thread enqueues.
MaxItems == 2
\* log2 of the largest ring capacity that is tried (capacities 1 .. 2^n).
MaxShifts == 1
NumThreads == 3
kMaxConsumers == 3
SubqueueSize == 1
MaxReinit == 1

(* ------------------------- program constants -------------------------- *)

\* uint16_t: the width of each half of Node::write_waiters.
kHalfWord == 65536
\* Bit 15, the "epoch" bit of a half-word (1 << 15).
kBit15 == 32768

\* The threads that share one ring: the producers and the one consumer.
Producers == 1 .. NumProducers
Consumer == NumProducers + 1

VARIABLES
    rings,       \* the RawQueue of each ring in shared memory
    tail_index,  \* MpscQueue::tail_index_ of each thread's handle
    pc,          \* where each thread is in the ring operation it is running
    loc,         \* each thread's local variables of that operation
    sent,        \* how many items each producer has enqueued so far
    deq,         \* history: the items each thread's dequeue calls returned
    claims,      \* history: per ring, the items in the order their writers claimed head_index
    accepted,    \* history: the items whose enqueue call has returned true
    solo         \* history: the items in the ring when the running call started alone, else -1

ringVars == <<rings, tail_index, pc, loc, sent, deq, claims, accepted, solo>>

VARIABLES
    state,       \* Mutex::state, the futex word
    mpc,         \* where each thread is in mutex_grab / mutex_release
    ndebug,      \* the build: TRUE when the asserts are compiled out
    aborted,     \* a failed assert has ended the process
    release      \* history: the state word at the call of each thread's latest
                 \* mutex_release and whether that call issued FUTEX_WAKE

mutexVars == <<state, mpc, ndebug, aborted, release>>

VARIABLES
    queue,       \* the Queue's RawQueue in shared memory
    handle,      \* the members of each thread's Queue object
    qpc,         \* where each thread is in the Queue call it is running
    qloc,        \* each thread's local variables of that call
    pool,        \* the rings whose pool storage is allocated
    call         \* history: what each thread's running Enqueue has done to the rings

queueVars == <<queue, handle, qpc, qloc, pool, call>>

VARIABLES
    header,            \* Pool::header_, the PoolHeader in shared memory
    block_bytes,       \* Pool::block_bytes_, the bytes of the allocation bitmap
    block_allocation,  \* Pool::block_allocation_, the allocation bitmap
    scan,              \* the locals of an Allocate that is scanning the bitmap
    allocations,       \* history: the offset from data_ and the size of every
                       \* pointer a call returned that has not been freed since
    result             \* history: the latest call on the pool and what it returned

poolVars == <<header, block_bytes, block_allocation, scan, allocations, result>>

VARIABLES
    key_type,    \* the KeyType of the map: "string" (const char *) or "int"
    data,        \* SharedHashmap::data_ and the buckets chained to it
    shared_keys, \* the strings in pool memory, by their offset in the pool
    latest,      \* history: the value of the latest AddOrSet of each key
    fetched,     \* history: the latest Fetch and what it did
    opened       \* history: the offset of the first handle fetched under each name

mapVars == <<key_type, data, shared_keys, latest, fetched, opened>>

VARIABLES
    base,        \* the address at which each process has mapped the pool
    shm,         \* the RawQueue of a ring and the buckets of a map, in the pool
    proc         \* each process's handle on the ring and what it has done

shmVars == <<base, shm, proc>>

\* The shared memory the pool and the hashmap keep.
memVars == <<poolVars, mapVars, shmVars>>

vars == <<ringVars, mutexVars, queueVars, memVars>>

\* A run without a Pool.
UnusedPool ==
    /\ header = <<>>
    /\ block_bytes = 0
    /\ block_allocation = <<>>
    /\ scan = <<>>
    /\ allocations = {}
    /\ result = <<>>

\* A run without a SharedHashmap.
UnusedMap ==
    /\ key_type = "int"
    /\ data = <<>>
    /\ shared_keys = <<>>
    /\ latest = <<>>
    /\ fetched = <<>>
    /\ opened = <<>>

\* A run in which every thread is of one process.
UnusedShm ==
    /\ base = <<>>
    /\ shm = <<>>
    /\ proc = <<>>

(* ------------------------------ the ring ------------------------------ *)

\* mpsc_queue::IntLog2 accepts exactly the powers of two.
Pow2(n) == IF n = 0 THEN 1 ELSE IF n = 1 THEN 2 ELSE IF n = 2 THEN 4 ELSE 8

Capacities == {Pow2(s) : s \in 0 .. MaxShifts}

\* Node::write_waiters, a 32-bit word, as its two 16-bit halves: bits 0..15
\* the wait-number counter and bits 16..31 the woken counter.
Word(lo, hi) == [wait |-> lo, woken |-> hi]

\* MpscQueue<T>::DoCreate: an empty ring of `size` nodes.
DoCreate(size) ==
    [write_length |-> 0,
     head_index   |-> 0,
     array_length |-> size,
     valid        |-> [i \in 0 .. size - 1 |-> 0],
     write_waiters |-> [i \in 0 .. size - 1 |-> Word(0, 0)],
     value        |-> [i \in 0 .. size - 1 |-> 0]]

\* MpscQueue<T>::InitCommon: wrapping_mask_ is array_length - 1.
WrappingMask(r) == r.array_length - 1

\* x & mask for a mask of the form 2^k - 1.
AndMask(x, mask) == x % (mask + 1)

\* ExchangeAddWord on the low half: no carry into the high half.
AddWordLo(w) == Word((w.wait + 1) % kHalfWord, w.woken)

\* IncrementWord on the high half.
IncWordHi(w) == Word(w.wait, (w.woken + 1) % kHalfWord)

\* The loop condition of DoWriteBlocking, as the source computes it.  The
\* source compares write_waiters & (1 << 15) with write_waiters & (1 << 31):
\* the two masked values are 2^15 or 0 and 2^31 or 0, so they are equal
\* exactly when both bits are clear.
MustWait(write_waiters, wait_number) ==
    LET my_wait_number == wait_number % kBit15
        woken_counter  == write_waiters.woken % kBit15
        bit15 == (write_waiters.wait \div kBit15) % 2
        bit31 == (write_waiters.woken \div kBit15) % 2
        inverted == ~(bit15 = 0 /\ bit31 = 0)
    IN  \/ (~inverted /\ woken_counter < my_wait_number)
        \/ (inverted /\ woken_counter > my_wait_number)

\* The locals of a ring call; delta is history: the net change the call has
\* made to write_length.
NoLoc == [op |-> "none", ring |-> 0, item |-> 0, old_head |-> 0, my_wait_number |-> 0,
          write_waiters |-> Word(0, 0), old_valid |-> 0, ret |-> FALSE,
          delta |-> 0]

\* The item a producer thread enqueues as its k-th: distinct from every other item.
Item(t, k) == 10 * t + k

\* The threads asleep in FutexWait on array[slot].write_waiters of ring r.
WriteSleepers(r, slot) ==
    {u \in DOMAIN pc : pc[u] = "WbSleep" /\ loc[u].ring = r /\ loc[u].old_head = slot}

\* The threads asleep in FutexWait on array[slot].valid of ring r.
ValidSleepers(r, slot) ==
    {u \in DOMAIN pc : pc[u] = "DqbSleep" /\ loc[u].ring = r /\ tail_index[u] = slot}

\* CompareExchange: the value *dest holds afterwards.
CompareExchange_NoStore(seen, old_val, new_val) == seen

CompareExchange(seen, old_val, new_val) == IF seen = old_val THEN new_val ELSE seen

\* Reserve: the ring is full when the length before the increment had reached
\* array_length.
ReserveFails_OffByOne(old_length, array_length) == old_length > array_length

ReserveFails(old_length, array_length) == old_length >= array_length

\* DoEnqueue: the writer wakes the reader when the node's valid was 2.
ReaderWaits_Never(old_valid) == FALSE

ReaderWaits(old_valid) == old_valid = 2

\* What a ring step leaves alone.
RingFrame ==
    UNCHANGED <<sent, deq, accepted, solo>> /\ UNCHANGED mutexVars /\ UNCHANGED memVars /\ UNCHANGED queueVars

(* Reserve: ExchangeAdd(&write_length, 1) and the test of the old length. *)
ReserveExchangeAdd(t) ==
    /\ pc[t] = "Reserve"
    /\ LET r == loc[t].ring
           old_length == rings[r].write_length
       IN  /\ rings' = [rings EXCEPT ![r].write_length = old_length + 1]
           /\ IF ReserveFails(old_length, rings[r].array_length)
              THEN pc' = [pc EXCEPT ![t] = "ReserveFull"]
              ELSE pc' = [pc EXCEPT ![t] =
                              IF loc[t].op = "Enqueue" THEN "ClaimHead" ELSE "Ret"]
           /\ loc' = [loc EXCEPT ![t].ret = ~ReserveFails(old_length, rings[r].array_length),
                                  ![t].delta = @ + 1]
    /\ UNCHANGED <<tail_index, claims>>
    /\ RingFrame

(* Reserve on a full ring: Decrement(&write_length), return false. *)
ReserveDecrement(t) ==
    /\ pc[t] = "ReserveFull"
    /\ rings' = [rings EXCEPT ![loc[t].ring].write_length = @ - 1]
    /\ pc' = [pc EXCEPT ![t] = "Ret"]
    /\ loc' = [loc EXCEPT ![t].delta = @ - 1]
    /\ UNCHANGED <<tail_index, claims>>
    /\ RingFrame

\* A CancelReservation that gives nothing back.
CancelReservation_NoDecrement(t) ==
    /\ pc[t] = "Cancel"
    /\ pc' = [pc EXCEPT ![t] = "Ret"]
    /\ UNCHANGED <<rings, tail_index, loc, claims>>
    /\ RingFrame

(* CancelReservation: Decrement(&write_length). *)
CancelReservation(t) ==
    /\ pc[t] = "Cancel"
    /\ rings' = [rings EXCEPT ![loc[t].ring].write_length = @ - 1]
    /\ pc' = [pc EXCEPT ![t] = "Ret"]
    /\ loc' = [loc EXCEPT ![t].delta = @ - 1]
    /\ UNCHANGED <<tail_index, claims>>
    /\ RingFrame

(* EnqueueBlocking: Increment(&write_length), whatever the length is. *)
BlockingIncrement(t) ==
    /\ pc[t] = "BlockingAdd"
    /\ rings' = [rings EXCEPT ![loc[t].ring].write_length = @ + 1]
    /\ pc' = [pc EXCEPT ![t] = "ClaimHead"]
    /\ loc' = [loc EXCEPT ![t].ret = TRUE, ![t].delta = @ + 1]
    /\ UNCHANGED <<tail_index, claims>>
    /\ RingFrame

(* DoEnqueue: ExchangeAdd(&head_index, 1); old_head &= wrapping_mask_. *)
ClaimHead(t) ==
    /\ pc[t] = "ClaimHead"
    /\ LET r == loc[t].ring
           old_head == rings[r].head_index
       IN  /\ rings' = [rings EXCEPT ![r].head_index = old_head + 1]
           /\ loc' = [loc EXCEPT ![t].old_head = AndMask(old_head, WrappingMask(rings[r]))]
           /\ claims' = [claims EXCEPT ![r] = Append(@, loc[t].item)]
    /\ pc' = [pc EXCEPT ![t] = "WrapHead"]
    /\ UNCHANGED tail_index
    /\ RingFrame

(* DoEnqueue: BitwiseAnd(&head_index, wrapping_mask_). *)
WrapHead(t) ==
    /\ pc[t] = "WrapHead"
    /\ LET r == loc[t].ring
       IN  rings' = [rings EXCEPT ![r].head_index = AndMask(@, WrappingMask(rings[r]))]
    /\ pc' = [pc EXCEPT ![t] = "TakeTicket"]
    /\ UNCHANGED <<tail_index, loc, claims>>
    /\ RingFrame

(* DoEnqueue: ExchangeAddWord on the low half of write_waiters. *)
TakeTicket(t) ==
    /\ pc[t] = "TakeTicket"
    /\ LET r == loc[t].ring
           s == loc[t].old_head
           w == rings[r].write_waiters[s]
       IN  /\ rings' = [rings EXCEPT ![r].write_waiters[s] = AddWordLo(w)]
           /\ loc' = [loc EXCEPT ![t].my_wait_number = w.wait]
    /\ pc' = [pc EXCEPT ![t] =
                  IF loc[t].op = "EnqueueBlocking" THEN "WbRead" ELSE "Copy"]
    /\ UNCHANGED <<tail_index, claims>>
    /\ RingFrame

(* DoWriteBlocking: load write_waiters and test the deli condition. *)
WbRead(t) ==
    /\ pc[t] = "WbRead"
    /\ LET w == rings[loc[t].ring].write_waiters[loc[t].old_head]
       IN  /\ loc' = [loc EXCEPT ![t].write_waiters = w]
           /\ pc' = [pc EXCEPT ![t] =
                         IF MustWait(w, loc[t].my_wait_number) THEN "WbWait" ELSE "Copy"]
    /\ UNCHANGED <<rings, tail_index, claims>>
    /\ RingFrame

(* DoWriteBlocking: FutexWait(&write_waiters, write_waiters) sleeps only while
   the word still holds the value that was read. *)
WbFutexWait(t) ==
    /\ pc[t] = "WbWait"
    /\ LET w == rings[loc[t].ring].write_waiters[loc[t].old_head]
       IN  pc' = [pc EXCEPT ![t] =
                      IF w = loc[t].write_waiters THEN "WbSleep" ELSE "WbRead"]
    /\ UNCHANGED <<rings, tail_index, loc, claims>>
    /\ RingFrame

(* DoEnqueue: VolatileCopy(&write_at->value, &item). *)
CopyItem(t) ==
    /\ pc[t] = "Copy"
    /\ rings' = [rings EXCEPT ![loc[t].ring].value[loc[t].old_head] = loc[t].item]
    /\ pc' = [pc EXCEPT ![t] = "Publish"]
    /\ UNCHANGED <<tail_index, loc, claims>>
    /\ RingFrame

(* DoEnqueue: old_valid = Exchange(&valid, 1). *)
Publish(t) ==
    /\ pc[t] = "Publish"
    /\ LET r == loc[t].ring
           s == loc[t].old_head
           old_valid == rings[r].valid[s]
       IN  /\ rings' = [rings EXCEPT ![r].valid[s] = 1]
           /\ loc' = [loc EXCEPT ![t].old_valid = old_valid]
           /\ pc' = [pc EXCEPT ![t] = IF ReaderWaits(old_valid) THEN "WakeReader" ELSE "Ret"]
    /\ UNCHANGED <<tail_index, claims>>
    /\ RingFrame

(* DoEnqueue: FutexWake(&valid, 1) wakes at most one thread asleep on valid. *)
WakeReader(t) ==
    /\ pc[t] = "WakeReader"
    /\ LET sleepers == ValidSleepers(loc[t].ring, loc[t].old_head)
       IN  IF sleepers = {}
           THEN pc' = [pc EXCEPT ![t] = "Ret"]
           ELSE \E u \in sleepers :
                    pc' = [pc EXCEPT ![t] = "Ret", ![u] = "DqbLoop"]
    /\ UNCHANGED <<rings, tail_index, loc, claims>>
    /\ RingFrame

(* DequeueNext: CompareExchange(&valid, 1, 0) on the node at tail_index_. *)
DqCompareExchange(t) ==
    /\ pc[t] = "DqCas"
    /\ LET r == loc[t].ring
           s == tail_index[t]
           seen == rings[r].valid[s]
       IN  /\ rings' = [rings EXCEPT ![r].valid[s] = CompareExchange(seen, 1, 0)]
           /\ loc' = [loc EXCEPT ![t].old_valid = seen, ![t].ret = (seen = 1)]
           /\ pc' = [pc EXCEPT ![t] = IF seen = 1 THEN "DqRead" ELSE "Ret"]
    /\ UNCHANGED <<tail_index, claims>>
    /\ RingFrame

(* DoDequeue: *item = read_at->value; ++tail_index_; tail_index_ &= mask. *)
DqRead(t) ==
    /\ pc[t] = "DqRead"
    /\ LET r == loc[t].ring
           s == tail_index[t]
       IN  /\ loc' = [loc EXCEPT ![t].item = rings[r].value[s], ![t].old_head = s]
           /\ tail_index' = [tail_index EXCEPT ![t] = AndMask(s + 1, WrappingMask(rings[r]))]
    /\ pc' = [pc EXCEPT ![t] = "DqWoken"]
    /\ UNCHANGED <<rings, claims>>
    /\ RingFrame

(* DoDequeue: IncrementWord on the high half of write_waiters. *)
DqIncrementWoken(t) ==
    /\ pc[t] = "DqWoken"
    /\ rings' = [rings EXCEPT ![loc[t].ring].write_waiters[loc[t].old_head] = IncWordHi(@)]
    /\ pc' = [pc EXCEPT ![t] =
                  IF loc[t].op = "DequeueNext" THEN "DqDecr" ELSE "DqbXadd"]
    /\ UNCHANGED <<tail_index, loc, claims>>
    /\ RingFrame

(* DequeueNext: Decrement(&write_length), return true. *)
DqDecrement(t) ==
    /\ pc[t] = "DqDecr"
    /\ rings' = [rings EXCEPT ![loc[t].ring].write_length = @ - 1]
    /\ pc' = [pc EXCEPT ![t] = "Ret"]
    /\ UNCHANGED <<tail_index, loc, claims>>
    /\ RingFrame

(* DequeueNextBlocking: CompareExchange(&valid, 1, 0). *)
DqbCompareExchange(t) ==
    /\ pc[t] = "DqbCas"
    /\ LET r == loc[t].ring
           s == tail_index[t]
           seen == rings[r].valid[s]
       IN  /\ rings' = [rings EXCEPT ![r].valid[s] = CompareExchange(seen, 1, 0)]
           /\ loc' = [loc EXCEPT ![t].old_valid = seen, ![t].ret = TRUE]
           /\ pc' = [pc EXCEPT ![t] = IF seen = 1 THEN "DqRead" ELSE "DqbAnnounce"]
    /\ UNCHANGED <<tail_index, claims>>
    /\ RingFrame

(* DequeueNextBlocking: CompareExchange(&valid, 0, 2) announces the waiter. *)
DqbAnnounce(t) ==
    /\ pc[t] = "DqbAnnounce"
    /\ LET r == loc[t].ring
           s == tail_index[t]
           seen == rings[r].valid[s]
       IN  /\ rings' = [rings EXCEPT ![r].valid[s] = CompareExchange(seen, 0, 2)]
           /\ pc' = [pc EXCEPT ![t] = IF seen = 0 THEN "DqbLoop" ELSE "DqbClear"]
    /\ UNCHANGED <<tail_index, loc, claims>>
    /\ RingFrame

(* DequeueNextBlocking: the test of while (read_at->valid == 2). *)
DqbLoop(t) ==
    /\ pc[t] = "DqbLoop"
    /\ pc' = [pc EXCEPT ![t] =
                  IF rings[loc[t].ring].valid[tail_index[t]] = 2 THEN "DqbWait" ELSE "DqbClear"]
    /\ UNCHANGED <<rings, tail_index, loc, claims>>
    /\ RingFrame

(* DequeueNextBlocking: FutexWait(&valid, 2) sleeps only while valid is 2. *)
DqbFutexWait(t) ==
    /\ pc[t] = "DqbWait"
    /\ pc' = [pc EXCEPT ![t] =
                  IF rings[loc[t].ring].valid[tail_index[t]] = 2 THEN "DqbSleep" ELSE "DqbLoop"]
    /\ UNCHANGED <<rings, tail_index, loc, claims>>
    /\ RingFrame

(* DequeueNextBlocking: Exchange(&valid, 0). *)
DqbClear(t) ==
    /\ pc[t] = "DqbClear"
    /\ LET r == loc[t].ring
           s == tail_index[t]
       IN  /\ loc' = [loc EXCEPT ![t].old_valid = rings[r].valid[s]]
           /\ rings' = [rings EXCEPT ![r].valid[s] = 0]
    /\ pc' = [pc EXCEPT ![t] = "DqRead"]
    /\ UNCHANGED <<tail_index, claims>>
    /\ RingFrame

(* DequeueNextBlocking: old_length = ExchangeAdd(&write_length, -1). *)
DqbExchangeAdd(t) ==
    /\ pc[t] = "DqbXadd"
    /\ LET r == loc[t].ring
           old_length == rings[r].write_length
       IN  /\ rings' = [rings EXCEPT ![r].write_length = old_length - 1]
           /\ pc' = [pc EXCEPT ![t] =
                         IF old_length > rings[r].array_length THEN "DqbWake" ELSE "Ret"]
    /\ UNCHANGED <<tail_index, loc, claims>>
    /\ RingFrame

(* DequeueNextBlocking: FutexWake(&write_waiters, max) wakes every sleeper. *)
DqbWakeWriters(t) ==
    /\ pc[t] = "DqbWake"
    /\ LET sleepers == WriteSleepers(loc[t].ring, loc[t].old_head)
       IN  pc' = [u \in DOMAIN pc |->
                      IF u = t THEN "Ret"
                      ELSE IF u \in sleepers THEN "WbRead" ELSE pc[u]]
    /\ UNCHANGED <<rings, tail_index, loc, claims>>
    /\ RingFrame

(* ------------------------------ the mutex ----------------------------- *)

\* The futex word is a uint32_t; a negative value k stands for 2^32 + k, which
\* is what a decrement below zero leaves.  The code compares it with 0, 1 and 2 only.
atomic_decrement(x) == x - 1

\* mutex_init.
mutex_init == 0

\* The threads asleep in futex(FUTEX_WAIT).
MutexSleepers == {u \in DOMAIN mpc : mpc[u] = "GrabSleep"}

\* No mutex step touches a ring.
MutexFrame == UNCHANGED ringVars /\ UNCHANGED queueVars /\ UNCHANGED ndebug /\ UNCHANGED memVars

\* Before a thread's first mutex_release.
NoRelease == [called |-> -1, woke |-> FALSE]

\* A failed assert ends the process unless the asserts are compiled out.
AssertFails(t, next) ==
    IF ndebug
    THEN mpc' = [mpc EXCEPT ![t] = next] /\ aborted' = aborted
    ELSE mpc' = [mpc EXCEPT ![t] = "Abort"] /\ aborted' = TRUE

(* A thread that does not hold the mutex calls mutex_grab. *)
CallGrab(t) ==
    /\ ~aborted
    /\ mpc[t] = "Out"
    /\ mpc' = [mpc EXCEPT ![t] = "GrabCas"]
    /\ UNCHANGED <<state, aborted>>
    /\ UNCHANGED release
    /\ MutexFrame

(* mutex_grab: compare_exchange(state, 0, 1). *)
GrabCas(t) ==
    /\ ~aborted
    /\ mpc[t] = "GrabCas"
    /\ state' = CompareExchange(state, 0, 1)
    /\ mpc' = [mpc EXCEPT ![t] = IF state = 0 THEN "Held" ELSE "GrabCheck"]
    /\ UNCHANGED aborted
    /\ UNCHANGED release
    /\ MutexFrame

(* mutex_grab: the read *state == 2 at the top of the do body. *)
GrabCheck(t) ==
    /\ ~aborted
    /\ mpc[t] = "GrabCheck"
    /\ mpc' = [mpc EXCEPT ![t] = IF state = 2 THEN "GrabWait" ELSE "GrabMark"]
    /\ UNCHANGED <<state, aborted>>
    /\ UNCHANGED release
    /\ MutexFrame

(* mutex_grab: compare_exchange(state, 1, 2). *)
GrabMark(t) ==
    /\ ~aborted
    /\ mpc[t] = "GrabMark"
    /\ state' = CompareExchange(state, 1, 2)
    /\ mpc' = [mpc EXCEPT ![t] = IF state = 1 THEN "GrabWait" ELSE "GrabRetry"]
    /\ UNCHANGED aborted
    /\ UNCHANGED release
    /\ MutexFrame

(* mutex_grab: futex(state, FUTEX_WAIT, 2) sleeps while the word is 2.  When
   it is not, the syscall returns -1, which the assert after it rejects. *)
GrabFutexWait(t) ==
    /\ ~aborted
    /\ mpc[t] = "GrabWait"
    /\ IF state = 2
       THEN mpc' = [mpc EXCEPT ![t] = "GrabSleep"] /\ aborted' = aborted
       ELSE AssertFails(t, "GrabRetry")
    /\ UNCHANGED state
    /\ UNCHANGED release
    /\ MutexFrame

(* mutex_grab: while (!compare_exchange(state, 0, 2)). *)
GrabRetry(t) ==
    /\ ~aborted
    /\ mpc[t] = "GrabRetry"
    /\ state' = CompareExchange(state, 0, 2)
    /\ mpc' = [mpc EXCEPT ![t] = IF state = 0 THEN "Held" ELSE "GrabCheck"]
    /\ UNCHANGED aborted
    /\ UNCHANGED release
    /\ MutexFrame

(* The holder calls mutex_release: assert on the state word. *)
ReleaseAssert(t) ==
    /\ ~aborted
    /\ mpc[t] = "Held"
    /\ IF state = 0
       THEN AssertFails(t, "RelDec")
       ELSE mpc' = [mpc EXCEPT ![t] = "RelDec"] /\ aborted' = aborted
    /\ release' = [release EXCEPT ![t] = [called |-> state, woke |-> FALSE]]
    /\ UNCHANGED state
    /\ MutexFrame

(* mutex_release: atomic_decrement(state). *)
ReleaseDecrement(t) ==
    /\ ~aborted
    /\ mpc[t] = "RelDec"
    /\ state' = atomic_decrement(state)
    /\ mpc' = [mpc EXCEPT ![t] = "RelRead"]
    /\ UNCHANGED aborted
    /\ UNCHANGED release
    /\ MutexFrame

(* mutex_release: the read of the state word, compared with 1. *)
ReleaseRead(t) ==
    /\ ~aborted
    /\ mpc[t] = "RelRead"
    /\ mpc' = [mpc EXCEPT ![t] = IF state = 1 THEN "RelStore" ELSE "Out"]
    /\ UNCHANGED <<state, aborted>>
    /\ UNCHANGED release
    /\ MutexFrame

(* mutex_release: *state = 0. *)
ReleaseStore(t) ==
    /\ ~aborted
    /\ mpc[t] = "RelStore"
    /\ state' = 0
    /\ mpc' = [mpc EXCEPT ![t] = "RelWake"]
    /\ UNCHANGED aborted
    /\ UNCHANGED release
    /\ MutexFrame

(* mutex_release: futex(state, FUTEX_WAKE, 1) wakes one sleeper, if any. *)
ReleaseWake(t) ==
    /\ ~aborted
    /\ mpc[t] = "RelWake"
    /\ IF MutexSleepers = {}
       THEN mpc' = [mpc EXCEPT ![t] = "Out"]
       ELSE \E u \in MutexSleepers : mpc' = [mpc EXCEPT ![t] = "Out", ![u] = "GrabRetry"]
    /\ release' = [release EXCEPT ![t].woke = TRUE]
    /\ UNCHANGED <<state, aborted>>
    /\ MutexFrame

\* A run without a Queue.
UnusedQueue ==
    /\ queue = <<>>
    /\ handle = <<>>
    /\ qpc = <<>>
    /\ qloc = <<>>
    /\ pool = {}
    /\ call = <<>>

\* A run about the mutex has no ring in it.
UnusedRing ==
    /\ rings = <<>>
    /\ tail_index = <<>>
    /\ pc = <<>>
    /\ loc = <<>>
    /\ sent = <<>>
    /\ deq = <<>>
    /\ claims = <<>>
    /\ accepted = {}
    /\ solo = <<>>

\* The mutex after mutex_init, every thread outside it, in either build.
MutexInit ==
    /\ state = mutex_init
    /\ mpc = [t \in 1 .. NumThreads |-> "Out"]
    /\ ndebug \in BOOLEAN
    /\ aborted = FALSE
    /\ release = [t \in 1 .. NumThreads |-> NoRelease]
    /\ UnusedRing
    /\ UnusedQueue
    /\ UnusedPool
    /\ UnusedMap
    /\ UnusedShm

MutexNext ==
    \/ \E t \in DOMAIN mpc : CallGrab(t)
    \/ \E t \in DOMAIN mpc : GrabCas(t)
    \/ \E t \in DOMAIN mpc : GrabCheck(t)
    \/ \E t \in DOMAIN mpc : GrabMark(t)
    \/ \E t \in DOMAIN mpc : GrabFutexWait(t)
    \/ \E t \in DOMAIN mpc : GrabRetry(t)
    \/ \E t \in DOMAIN mpc : ReleaseAssert(t)
    \/ \E t \in DOMAIN mpc : ReleaseDecrement(t)
    \/ \E t \in DOMAIN mpc : ReleaseRead(t)
    \/ \E t \in DOMAIN mpc : ReleaseStore(t)
    \/ \E t \in DOMAIN mpc : ReleaseWake(t)

(* ------------------- threads that use one ring directly --------------- *)

\* The committed nodes of ring r: the items enqueued and not yet dequeued.
Filled(r) == {s \in DOMAIN rings[r].valid : rings[r].valid[s] = 1}

\* A call starts alone when every other thread is idle, and solo then keeps
\* the number of items the ring held at that moment; it stops being alone
\* (-1) as soon as another thread starts a call.
StartSolo(t) ==
    solo' = [u \in DOMAIN solo |->
                IF u = t /\ \A v \in DOMAIN pc \ {t} : pc[v] = "Idle"
                THEN Cardinality(Filled(0)) ELSE -1]

(* A producer thread calls MpscQueue::Enqueue(item). *)
CallEnqueue(t) ==
    /\ t \in Producers
    /\ pc[t] = "Idle"
    /\ sent[t] < MaxItems
    /\ pc' = [pc EXCEPT ![t] = "Reserve"]
    /\ loc' = [loc EXCEPT ![t] = [NoLoc EXCEPT !.op = "Enqueue",
                                               !.item = Item(t, sent[t] + 1)]]
    /\ StartSolo(t)
    /\ UNCHANGED <<rings, tail_index, sent, deq, claims, accepted>>
    /\ UNCHANGED mutexVars /\ UNCHANGED memVars /\ UNCHANGED queueVars

(* A producer thread calls MpscQueue::EnqueueBlocking(item). *)
CallEnqueueBlocking(t) ==
    /\ t \in Producers
    /\ pc[t] = "Idle"
    /\ sent[t] < MaxItems
    /\ pc' = [pc EXCEPT ![t] = "BlockingAdd"]
    /\ loc' = [loc EXCEPT ![t] = [NoLoc EXCEPT !.op = "EnqueueBlocking",
                                               !.item = Item(t, sent[t] + 1)]]
    /\ StartSolo(t)
    /\ UNCHANGED <<rings, tail_index, sent, deq, claims, accepted>>
    /\ UNCHANGED mutexVars /\ UNCHANGED memVars /\ UNCHANGED queueVars

(* The consumer thread calls MpscQueue::DequeueNext(&item). *)
CallDequeueNext(t) ==
    /\ t = Consumer
    /\ pc[t] = "Idle"
    /\ pc' = [pc EXCEPT ![t] = "DqCas"]
    /\ loc' = [loc EXCEPT ![t] = [NoLoc EXCEPT !.op = "DequeueNext"]]
    /\ StartSolo(t)
    /\ UNCHANGED <<rings, tail_index, sent, deq, claims, accepted>>
    /\ UNCHANGED mutexVars /\ UNCHANGED memVars /\ UNCHANGED queueVars

(* The consumer thread calls MpscQueue::DequeueNextBlocking(&item). *)
CallDequeueNextBlocking(t) ==
    /\ t = Consumer
    /\ pc[t] = "Idle"
    /\ pc' = [pc EXCEPT ![t] = "DqbCas"]
    /\ loc' = [loc EXCEPT ![t] = [NoLoc EXCEPT !.op = "DequeueNextBlocking"]]
    /\ StartSolo(t)
    /\ UNCHANGED <<rings, tail_index, sent, deq, claims, accepted>>
    /\ UNCHANGED mutexVars /\ UNCHANGED memVars /\ UNCHANGED queueVars

(* The call returns to the thread: a producer goes on to its next item after
   true and tries the same item again after false; the consumer keeps what a
   successful dequeue gave it. *)
Return(t) ==
    /\ pc[t] = "Ret"
    /\ pc' = [pc EXCEPT ![t] = "Idle"]
    /\ loc' = [loc EXCEPT ![t] = NoLoc]
    /\ solo' = [solo EXCEPT ![t] = -1]
    /\ IF t \in Producers
       THEN /\ sent' = [sent EXCEPT ![t] = IF loc[t].ret THEN @ + 1 ELSE @]
            /\ accepted' = IF loc[t].ret THEN accepted \cup {loc[t].item} ELSE accepted
            /\ deq' = deq
       ELSE /\ deq' = [deq EXCEPT ![t] = IF loc[t].ret THEN Append(@, loc[t].item) ELSE @]
            /\ UNCHANGED <<sent, accepted>>
    /\ UNCHANGED <<rings, tail_index, claims>>
    /\ UNCHANGED mutexVars /\ UNCHANGED memVars /\ UNCHANGED queueVars

\* A run about rings has no mutex in it.
UnusedMutex ==
    /\ state = mutex_init
    /\ mpc = <<>>
    /\ ndebug = FALSE
    /\ aborted = FALSE
    /\ release = <<>>

\* A ring created with MpscQueue<T>::Create(size), size a power of two, and
\* the handles of the threads that share it.
RingInit ==
    /\ \E size \in Capacities : rings = [r \in {0} |-> DoCreate(size)]
    /\ tail_index = [t \in {Consumer} \cup Producers |-> 0]
    /\ pc = [t \in {Consumer} \cup Producers |-> "Idle"]
    /\ loc = [t \in {Consumer} \cup Producers |-> NoLoc]
    /\ sent = [t \in Producers |-> 0]
    /\ deq = [t \in {Consumer} |-> <<>>]
    /\ claims = [r \in {0} |-> <<>>]
    /\ accepted = {}
    /\ solo = [t \in {Consumer} \cup Producers |-> -1]
    /\ UnusedMutex
    /\ UnusedPool
    /\ UnusedMap
    /\ UnusedShm
    /\ UnusedQueue

\* Producers call Enqueue and the consumer calls DequeueNext.
NonBlockingNext ==
    \/ \E t \in DOMAIN pc : CallEnqueue(t)
    \/ \E t \in DOMAIN pc : CallDequeueNext(t)
    \* The steps of Reserve, EnqueueAt and Enqueue.
    \/ \E t \in DOMAIN pc : ReserveExchangeAdd(t)
    \/ \E t \in DOMAIN pc : ReserveDecrement(t)
    \/ \E t \in DOMAIN pc : ClaimHead(t)
    \/ \E t \in DOMAIN pc : WrapHead(t)
    \/ \E t \in DOMAIN pc : TakeTicket(t)
    \/ \E t \in DOMAIN pc : CopyItem(t)
    \/ \E t \in DOMAIN pc : Publish(t)
    \* The steps of DequeueNext.
    \/ \E t \in DOMAIN pc : DqCompareExchange(t)
    \/ \E t \in DOMAIN pc : DqRead(t)
    \/ \E t \in DOMAIN pc : DqIncrementWoken(t)
    \/ \E t \in DOMAIN pc : DqDecrement(t)
    \/ \E t \in DOMAIN pc : Return(t)

\* Every thread uses the blocking and the non-blocking calls as it likes.
RingNext ==
    \/ \E t \in DOMAIN pc : CallEnqueue(t)
    \/ \E t \in DOMAIN pc : CallEnqueueBlocking(t)
    \/ \E t \in DOMAIN pc : CallDequeueNext(t)
    \/ \E t \in DOMAIN pc : CallDequeueNextBlocking(t)
    \* The steps of Reserve, EnqueueAt and Enqueue.
    \/ \E t \in DOMAIN pc : ReserveExchangeAdd(t)
    \/ \E t \in DOMAIN pc : ReserveDecrement(t)
    \/ \E t \in DOMAIN pc : ClaimHead(t)
    \/ \E t \in DOMAIN pc : WrapHead(t)
    \/ \E t \in DOMAIN pc : TakeTicket(t)
    \/ \E t \in DOMAIN pc : CopyItem(t)
    \/ \E t \in DOMAIN pc : Publish(t)
    \* The steps of DequeueNext.
    \/ \E t \in DOMAIN pc : DqCompareExchange(t)
    \/ \E t \in DOMAIN pc : DqRead(t)
    \/ \E t \in DOMAIN pc : DqIncrementWoken(t)
    \/ \E t \in DOMAIN pc : DqDecrement(t)
    \* The further steps of EnqueueBlocking and DequeueNextBlocking.
    \/ \E t \in DOMAIN pc : BlockingIncrement(t)
    \/ \E t \in DOMAIN pc : WbRead(t)
    \/ \E t \in DOMAIN pc : WbFutexWait(t)
    \/ \E t \in DOMAIN pc : WakeReader(t)
    \/ \E t \in DOMAIN pc : DqbCompareExchange(t)
    \/ \E t \in DOMAIN pc : DqbAnnounce(t)
    \/ \E t \in DOMAIN pc : DqbLoop(t)
    \/ \E t \in DOMAIN pc : DqbFutexWait(t)
    \/ \E t \in DOMAIN pc : DqbClear(t)
    \/ \E t \in DOMAIN pc : DqbExchangeAdd(t)
    \/ \E t \in DOMAIN pc : DqbWakeWriters(t)
    \/ \E t \in DOMAIN pc : Return(t)

SpecRingNB == RingInit /\ [][NonBlockingNext]_vars

SpecRing == RingInit /\ [][RingNext]_vars

SpecMutex == MutexInit /\ [][MutexNext]_vars

(* ------------------------------ the Queue ----------------------------- *)

Descriptors == 0 .. kMaxConsumers - 1

\* A ring is named by its pool offset; there is room for one per descriptor.
RingIds == 0 .. kMaxConsumers - 1

\* An empty entry of subqueues_, and the "none found" value of an index.
NoRing == kMaxConsumers

\* Queue<T>::DoCreate: no subqueue, every descriptor invalid and dead.  offset
\* and num_references are not written: they hold whatever the pool block held.
QueueDoCreate(size, garbage) ==
    [num_subqueues    |-> 0,
     subqueue_size    |-> size,
     subqueue_updates |-> 0,
     queue_offsets    |-> [i \in Descriptors |->
                              [offset |-> garbage, valid |-> 0, dead |-> 1,
                               num_references |-> garbage]]]

\* The members of a Queue object as InitializeLocalState leaves them, before
\* MakeOwnSubqueue.  role is the calls the owning thread makes and built counts
\* the handles the thread has constructed; live says the object exists.
NewHandle(role, built, live) ==
    [role |-> role, built |-> built, live |-> live,
     subqueues |-> [i \in Descriptors |-> NoRing],
     last_num_subqueues |-> 0,
     last_subqueue_updates |-> 0,
     my_subqueue_index |-> NoRing,
     writable_subqueues |-> <<>>]

\* The threads that read: ConsumerThread keeps one handle for the whole run,
\* ReInitializingConsumerThread deletes its handle and constructs a new one.
Reads(h) == h.role \in {"consumer", "reinitializing"}

\* The locals of a Queue call.
NoQLoc == [op |-> "none", item |-> 0, i |-> 0, subqueue_updates |-> 0,
           references |-> 0, k |-> 0, ret |-> FALSE, after |-> "none"]

\* History of one Enqueue call: the rings whose Reserve returned true, the
\* rings CancelReservation and EnqueueAt were called on, whether a Reserve
\* failed, and the net change the call made to each ring's write_length.
NoCall == [reserved |-> <<>>, cancelled |-> <<>>, written |-> <<>>, failed |-> FALSE,
           delta |-> [r \in RingIds |-> 0]]

\* The first index at or after i whose subqueues_ entry is set.
NextSubqueue(h, i) ==
    IF \E j \in Descriptors : j >= i /\ h.subqueues[j] # NoRing
    THEN CHOOSE j \in Descriptors :
             /\ j >= i /\ h.subqueues[j] # NoRing
             /\ \A k \in Descriptors : (k >= i /\ h.subqueues[k] # NoRing) => j <= k
    ELSE NoRing

\* The rings a handle has cached.
CachedRings(h) == {h.subqueues[i] : i \in {j \in Descriptors : h.subqueues[j] # NoRing}}

\* The handle starts a ring call / has none running.
Dispatch(t, start, op, r, item) ==
    /\ pc' = [pc EXCEPT ![t] = start]
    /\ loc' = [loc EXCEPT ![t] = [NoLoc EXCEPT !.op = op, !.ring = r, !.item = item]]

NoDispatch(t) ==
    /\ pc' = [pc EXCEPT ![t] = "Idle"]
    /\ loc' = [loc EXCEPT ![t] = NoLoc]

\* What the steps of the Queue that touch no ring leave alone.
RingUntouched == UNCHANGED <<rings, tail_index, pc, loc, claims>>

QueueFrame == UNCHANGED <<sent, deq, accepted, solo>> /\ UNCHANGED mutexVars /\ UNCHANGED memVars

\* The for loop of IncorporateNewSubqueues moves on to the next index, the
\* handle's members being h by now; after the last index it ends with
\* last_subqueue_updates_ = subqueue_updates.
ScanAdvance(t, h) ==
    /\ qloc' = [qloc EXCEPT ![t].i = @ + 1]
    /\ IF qloc[t].i + 1 = kMaxConsumers
       THEN /\ qpc' = [qpc EXCEPT ![t] = "IncDone"]
            /\ handle' = [handle EXCEPT ![t] =
                              [h EXCEPT !.last_subqueue_updates = qloc[t].subqueue_updates]]
       ELSE /\ qpc' = [qpc EXCEPT ![t] = "IncScan"]
            /\ handle' = [handle EXCEPT ![t] = h]

(* IncorporateNewSubqueues: ExchangeAdd(&subqueue_updates, 0) and the
   comparison with last_subqueue_updates_. *)
QIncRead(t) ==
    /\ qpc[t] = "IncRead"
    /\ qloc' = [qloc EXCEPT ![t].subqueue_updates = queue.subqueue_updates, ![t].i = 0]
    /\ qpc' = [qpc EXCEPT ![t] =
                   IF queue.subqueue_updates # handle[t].last_subqueue_updates
                   THEN "IncScan" ELSE "IncDone"]
    /\ UNCHANGED <<queue, handle, pool, call>>
    /\ RingUntouched /\ QueueFrame

(* IncorporateNewSubqueues: ExchangeAdd(&queue_offsets[i].valid, 0) and the
   choice between AddSubqueue, RemoveSubqueue and nothing. *)
QIncScan(t) ==
    /\ qpc[t] = "IncScan"
    /\ LET i == qloc[t].i
           valid == queue.queue_offsets[i].valid
       IN  IF valid # 0 /\ handle[t].subqueues[i] = NoRing
           THEN qpc' = [qpc EXCEPT ![t] = "AddRead"] /\ UNCHANGED <<qloc, handle>>
           ELSE IF valid = 0 /\ handle[t].subqueues[i] # NoRing
           THEN /\ qpc' = [qpc EXCEPT ![t] = "RemXadd"]
                /\ qloc' = [qloc EXCEPT ![t].after = "Inc"]
                /\ UNCHANGED handle
           ELSE ScanAdvance(t, handle[t])
    /\ UNCHANGED <<queue, pool, call>>
    /\ RingUntouched /\ QueueFrame

\* AddSubqueue without its return on references == 0.
QAddRead_NoCheck(t) ==
    /\ qpc[t] = "AddRead"
    /\ LET references == queue.queue_offsets[qloc[t].i].num_references
       IN  IF references < 0
           THEN ScanAdvance(t, handle[t])
           ELSE /\ qloc' = [qloc EXCEPT ![t].references = references]
                /\ qpc' = [qpc EXCEPT ![t] = "AddCas"]
                /\ UNCHANGED handle
    /\ UNCHANGED <<queue, pool, call>>
    /\ RingUntouched /\ QueueFrame

(* AddSubqueue: references = ExchangeAdd(&num_references, 0); zero means the
   ring is gone and AddSubqueue returns false. *)
QAddRead(t) ==
    /\ qpc[t] = "AddRead"
    /\ LET references == queue.queue_offsets[qloc[t].i].num_references
       IN  IF references = 0
           THEN ScanAdvance(t, handle[t])
           ELSE /\ qloc' = [qloc EXCEPT ![t].references = references]
                /\ qpc' = [qpc EXCEPT ![t] = "AddCas"]
                /\ UNCHANGED handle
    /\ UNCHANGED <<queue, pool, call>>
    /\ RingUntouched /\ QueueFrame

\* AddSubqueue with an Increment in the place of its CompareExchange.
QAddCas_Increment(t) ==
    /\ qpc[t] = "AddCas"
    /\ queue' = [queue EXCEPT !.queue_offsets[qloc[t].i].num_references = @ + 1]
    /\ qpc' = [qpc EXCEPT ![t] = "AddLoad"]
    /\ UNCHANGED <<handle, qloc, pool, call>>
    /\ RingUntouched /\ QueueFrame

(* AddSubqueue: CompareExchange(&num_references, references, references + 1). *)
QAddCas(t) ==
    /\ qpc[t] = "AddCas"
    /\ LET i == qloc[t].i
           seen == queue.queue_offsets[i].num_references
       IN  /\ queue' = [queue EXCEPT !.queue_offsets[i].num_references =
                           CompareExchange(seen, qloc[t].references, qloc[t].references + 1)]
           /\ qpc' = [qpc EXCEPT ![t] =
                          IF seen = qloc[t].references THEN "AddLoad" ELSE "AddRead"]
    /\ UNCHANGED <<handle, qloc, pool, call>>
    /\ RingUntouched /\ QueueFrame

\* AddSubqueue and IncorporateNewSubqueues without ++last_num_subqueues_.
QAddLoad_NoCount(t) ==
    /\ qpc[t] = "AddLoad"
    /\ LET i == qloc[t].i
       IN  ScanAdvance(t, [handle[t] EXCEPT !.subqueues[i] = queue.queue_offsets[i].offset])
    /\ UNCHANGED <<queue, pool, call>>
    /\ RingUntouched /\ QueueFrame

(* AddSubqueue: subqueues_[index] = Load(queue_offsets[index].offset), then
   ++last_num_subqueues_ in IncorporateNewSubqueues. *)
QAddLoad(t) ==
    /\ qpc[t] = "AddLoad"
    /\ LET i == qloc[t].i
       IN  ScanAdvance(t, [handle[t] EXCEPT !.subqueues[i] = queue.queue_offsets[i].offset,
                                            !.last_num_subqueues = @ + 1])
    /\ UNCHANGED <<queue, pool, call>>
    /\ RingUntouched /\ QueueFrame

\* RemoveSubqueue has finished with index i: subqueues_[index].reset(), and
\* the caller goes on: IncorporateNewSubqueues decrements last_num_subqueues_
\* and scans on, the destructor removes its next subqueue or ends.
RemoveDone(t) ==
    LET i == qloc[t].i
        h == [handle[t] EXCEPT !.subqueues[i] = NoRing]
    IN  IF qloc[t].after = "Inc"
        THEN ScanAdvance(t, [h EXCEPT !.last_num_subqueues = @ - 1])
        ELSE IF NextSubqueue(h, i + 1) # NoRing
        THEN /\ handle' = [handle EXCEPT ![t] = h]
             /\ qloc' = [qloc EXCEPT ![t].i = NextSubqueue(h, i + 1)]
             /\ qpc' = [qpc EXCEPT ![t] = "RemXadd"]
        ELSE /\ handle' = [handle EXCEPT ![t] = [h EXCEPT !.live = FALSE]]
             /\ qloc' = [qloc EXCEPT ![t] = NoQLoc]
             /\ qpc' = [qpc EXCEPT ![t] = "QIdle"]

(* RemoveSubqueue: references = ExchangeAdd(&num_references, -1). *)
QRemXadd(t) ==
    /\ qpc[t] = "RemXadd"
    /\ LET i == qloc[t].i
           references == queue.queue_offsets[i].num_references
       IN  /\ queue' = [queue EXCEPT !.queue_offsets[i].num_references = references - 1]
           /\ IF references = 1
              THEN /\ qpc' = [qpc EXCEPT ![t] = "RemFree"]
                   /\ UNCHANGED <<handle, qloc>>
              ELSE RemoveDone(t)
    /\ UNCHANGED <<pool, call>>
    /\ RingUntouched /\ QueueFrame

(* RemoveSubqueue: subqueues_[index]->FreeQueue() gives the ring back to the pool. *)
QRemFree(t) ==
    /\ qpc[t] = "RemFree"
    /\ pool' = pool \ {handle[t].subqueues[qloc[t].i]}
    /\ qpc' = [qpc EXCEPT ![t] = "RemDead"]
    /\ UNCHANGED <<queue, handle, qloc, call>>
    /\ RingUntouched /\ QueueFrame

\* RemoveSubqueue without its Exchange(&queue_offsets[index].dead, 1).
QRemDead_NoStore(t) ==
    /\ qpc[t] = "RemDead"
    /\ queue' = queue
    /\ RemoveDone(t)
    /\ UNCHANGED <<pool, call>>
    /\ RingUntouched /\ QueueFrame

(* RemoveSubqueue: Exchange(&queue_offsets[index].dead, 1). *)
QRemDead(t) ==
    /\ qpc[t] = "RemDead"
    /\ queue' = [queue EXCEPT !.queue_offsets[qloc[t].i].dead = 1]
    /\ RemoveDone(t)
    /\ UNCHANGED <<pool, call>>
    /\ RingUntouched /\ QueueFrame

(* A producer handle calls Queue::Enqueue(item). *)
QCallEnqueue(t) ==
    /\ qpc[t] = "QIdle"
    /\ handle[t].live /\ handle[t].role = "Enqueue"
    /\ sent[t] < MaxItems
    /\ qpc' = [qpc EXCEPT ![t] = "IncRead"]
    /\ qloc' = [qloc EXCEPT ![t] = [NoQLoc EXCEPT !.op = "Enqueue",
                                                  !.item = Item(t, sent[t] + 1)]]
    /\ call' = [call EXCEPT ![t] = NoCall]
    /\ UNCHANGED <<queue, handle, pool>>
    /\ RingUntouched /\ QueueFrame

(* A producer handle calls Queue::EnqueueBlocking(item). *)
QCallEnqueueBlocking(t) ==
    /\ qpc[t] = "QIdle"
    /\ handle[t].live /\ handle[t].role = "EnqueueBlocking"
    /\ sent[t] < MaxItems
    /\ qpc' = [qpc EXCEPT ![t] = "IncRead"]
    /\ qloc' = [qloc EXCEPT ![t] = [NoQLoc EXCEPT !.op = "EnqueueBlocking",
                                                  !.item = Item(t, sent[t] + 1)]]
    /\ call' = [call EXCEPT ![t] = NoCall]
    /\ UNCHANGED <<queue, handle, pool>>
    /\ RingUntouched /\ QueueFrame

(* Enqueue after IncorporateNewSubqueues: false when last_num_subqueues_ is 0;
   else writable_subqueues_.clear() and Reserve on the first cached ring. *)
QEnqueueBegin(t) ==
    /\ qpc[t] = "IncDone" /\ qloc[t].op = "Enqueue"
    /\ LET h == handle[t]
           first == NextSubqueue(h, 0)
       IN  IF h.last_num_subqueues = 0
           THEN /\ qpc' = [qpc EXCEPT ![t] = "QRet"]
                /\ qloc' = [qloc EXCEPT ![t].ret = FALSE]
                /\ UNCHANGED <<handle, pc, loc>>
           ELSE IF first = NoRing
           THEN /\ qpc' = [qpc EXCEPT ![t] = "QAbort"]
                /\ UNCHANGED <<handle, qloc, pc, loc>>
           ELSE /\ handle' = [handle EXCEPT ![t].writable_subqueues = <<>>]
                /\ qloc' = [qloc EXCEPT ![t].i = first]
                /\ qpc' = [qpc EXCEPT ![t] = "EnqReserve"]
                /\ Dispatch(t, "Reserve", "Reserve", h.subqueues[first], qloc[t].item)
    /\ UNCHANGED <<queue, pool, call, rings, tail_index, claims>>
    /\ QueueFrame

\* The call's history after the ring call that has just returned.
Accounted(t) ==
    [call[t] EXCEPT !.delta[loc[t].ring] = @ + loc[t].delta]

(* Enqueue: Reserve has returned.  On false, CancelReservation on the first of
   writable_subqueues_, or return false when there is none; on true,
   push_back(i), then EnqueueAt on the first ring once all last_num_subqueues_
   are reserved, else Reserve on the next cached ring. *)
QEnqReserved(t) ==
    /\ qpc[t] = "EnqReserve" /\ pc[t] = "Ret"
    /\ LET h == handle[t]
           i == qloc[t].i
           writable == Append(h.writable_subqueues, i)
           next == NextSubqueue(h, i + 1)
           from == 1
       IN  IF ~loc[t].ret
           THEN IF from > Len(h.writable_subqueues)
                THEN /\ call' = [call EXCEPT ![t] = [Accounted(t) EXCEPT !.failed = TRUE]]
                     /\ qpc' = [qpc EXCEPT ![t] = "QRet"]
                     /\ qloc' = [qloc EXCEPT ![t].ret = FALSE]
                     /\ NoDispatch(t)
                     /\ UNCHANGED handle
                ELSE /\ call' = [call EXCEPT ![t] =
                                    [Accounted(t) EXCEPT
                                        !.failed = TRUE,
                                        !.cancelled = Append(@, h.subqueues[h.writable_subqueues[from]])]]
                     /\ qpc' = [qpc EXCEPT ![t] = "EnqCancel"]
                     /\ qloc' = [qloc EXCEPT ![t].k = from]
                     /\ Dispatch(t, "Cancel", "CancelReservation",
                                 h.subqueues[h.writable_subqueues[from]], qloc[t].item)
                     /\ UNCHANGED handle
           ELSE /\ handle' = [handle EXCEPT ![t].writable_subqueues = writable]
                /\ IF Len(writable) = h.last_num_subqueues
                   THEN /\ call' = [call EXCEPT ![t] =
                                       [Accounted(t) EXCEPT
                                           !.reserved = Append(@, loc[t].ring),
                                           !.written = Append(@, h.subqueues[writable[1]])]]
                        /\ qpc' = [qpc EXCEPT ![t] = "EnqWrite"]
                        /\ qloc' = [qloc EXCEPT ![t].k = 1]
                        /\ Dispatch(t, "ClaimHead", "EnqueueAt", h.subqueues[writable[1]],
                                    qloc[t].item)
                   ELSE IF next # NoRing
                   THEN /\ call' = [call EXCEPT ![t] =
                                       [Accounted(t) EXCEPT !.reserved = Append(@, loc[t].ring)]]
                        /\ qpc' = qpc
                        /\ qloc' = [qloc EXCEPT ![t].i = next]
                        /\ Dispatch(t, "Reserve", "Reserve", h.subqueues[next], qloc[t].item)
                   ELSE /\ call' = [call EXCEPT ![t] =
                                       [Accounted(t) EXCEPT !.reserved = Append(@, loc[t].ring)]]
                        /\ qpc' = [qpc EXCEPT ![t] = "QAbort"]
                        /\ qloc' = qloc
                        /\ NoDispatch(t)
    /\ UNCHANGED <<queue, pool, rings, tail_index, claims>>
    /\ QueueFrame

(* Enqueue: CancelReservation has returned; the next of writable_subqueues_,
   or return false. *)
QEnqCancelled(t) ==
    /\ qpc[t] = "EnqCancel" /\ pc[t] = "Ret"
    /\ LET h == handle[t]
           k == qloc[t].k + 1
       IN  IF k <= Len(h.writable_subqueues)
           THEN /\ call' = [call EXCEPT ![t] =
                               [Accounted(t) EXCEPT
                                   !.cancelled = Append(@, h.subqueues[h.writable_subqueues[k]])]]
                /\ qpc' = qpc
                /\ qloc' = [qloc EXCEPT ![t].k = k]
                /\ Dispatch(t, "Cancel", "CancelReservation",
                            h.subqueues[h.writable_subqueues[k]], qloc[t].item)
           ELSE /\ call' = [call EXCEPT ![t] = Accounted(t)]
                /\ qpc' = [qpc EXCEPT ![t] = "QRet"]
                /\ qloc' = [qloc EXCEPT ![t].ret = FALSE]
                /\ NoDispatch(t)
    /\ UNCHANGED <<queue, handle, pool, rings, tail_index, claims>>
    /\ QueueFrame

(* Enqueue: EnqueueAt has returned; the next of writable_subqueues_, or
   return true. *)
QEnqWritten(t) ==
    /\ qpc[t] = "EnqWrite" /\ pc[t] = "Ret"
    /\ LET h == handle[t]
           k == qloc[t].k + 1
       IN  IF k <= Len(h.writable_subqueues)
           THEN /\ call' = [call EXCEPT ![t] =
                               [Accounted(t) EXCEPT
                                   !.written = Append(@, h.subqueues[h.writable_subqueues[k]])]]
                /\ qpc' = qpc
                /\ qloc' = [qloc EXCEPT ![t].k = k]
                /\ Dispatch(t, "ClaimHead", "EnqueueAt",
                            h.subqueues[h.writable_subqueues[k]], qloc[t].item)
           ELSE /\ call' = [call EXCEPT ![t] = Accounted(t)]
                /\ qpc' = [qpc EXCEPT ![t] = "QRet"]
                /\ qloc' = [qloc EXCEPT ![t].ret = TRUE]
                /\ NoDispatch(t)
    /\ UNCHANGED <<queue, handle, pool, rings, tail_index, claims>>
    /\ QueueFrame

\* EnqueueBlocking without its check of last_num_subqueues_: with no
\* consumer it goes on to return true.
QEnqueueBlockingBegin_NoCheck(t) ==
    /\ qpc[t] = "IncDone" /\ qloc[t].op = "EnqueueBlocking"
    /\ LET h == handle[t]
           first == NextSubqueue(h, 0)
       IN  IF h.last_num_subqueues = 0
           THEN /\ qpc' = [qpc EXCEPT ![t] = "QRet"]
                /\ qloc' = [qloc EXCEPT ![t].ret = TRUE]
                /\ UNCHANGED <<pc, loc>>
           ELSE IF first = NoRing
           THEN /\ qpc' = [qpc EXCEPT ![t] = "QAbort"]
                /\ UNCHANGED <<qloc, pc, loc>>
           ELSE /\ qloc' = [qloc EXCEPT ![t].i = first, ![t].k = 0]
                /\ qpc' = [qpc EXCEPT ![t] = "EnqbWrite"]
                /\ Dispatch(t, "BlockingAdd", "EnqueueBlocking", h.subqueues[first],
                            qloc[t].item)
    /\ UNCHANGED <<queue, handle, pool, call, rings, tail_index, claims>>
    /\ QueueFrame

(* EnqueueBlocking after IncorporateNewSubqueues: false when
   last_num_subqueues_ is 0, else MpscQueue::EnqueueBlocking on the first
   cached ring. *)
QEnqueueBlockingBegin(t) ==
    /\ qpc[t] = "IncDone" /\ qloc[t].op = "EnqueueBlocking"
    /\ LET h == handle[t]
           first == NextSubqueue(h, 0)
       IN  IF h.last_num_subqueues = 0
           THEN /\ qpc' = [qpc EXCEPT ![t] = "QRet"]
                /\ qloc' = [qloc EXCEPT ![t].ret = FALSE]
                /\ UNCHANGED <<pc, loc>>
           ELSE IF first = NoRing
           THEN /\ qpc' = [qpc EXCEPT ![t] = "QAbort"]
                /\ UNCHANGED <<qloc, pc, loc>>
           ELSE /\ qloc' = [qloc EXCEPT ![t].i = first, ![t].k = 0]
                /\ qpc' = [qpc EXCEPT ![t] = "EnqbWrite"]
                /\ Dispatch(t, "BlockingAdd", "EnqueueBlocking", h.subqueues[first],
                            qloc[t].item)
    /\ UNCHANGED <<queue, handle, pool, call, rings, tail_index, claims>>
    /\ QueueFrame

(* EnqueueBlocking: the ring's EnqueueBlocking has returned; return true when
   ++num_written == last_num_subqueues_, else go on to the next cached ring. *)
QEnqbWritten(t) ==
    /\ qpc[t] = "EnqbWrite" /\ pc[t] = "Ret"
    /\ LET h == handle[t]
           num_written == qloc[t].k + 1
           next == NextSubqueue(h, qloc[t].i + 1)
       IN  IF num_written = h.last_num_subqueues
           THEN /\ qpc' = [qpc EXCEPT ![t] = "QRet"]
                /\ qloc' = [qloc EXCEPT ![t].ret = TRUE, ![t].k = num_written]
                /\ NoDispatch(t)
           ELSE IF next # NoRing
           THEN /\ qpc' = qpc
                /\ qloc' = [qloc EXCEPT ![t].i = next, ![t].k = num_written]
                /\ Dispatch(t, "BlockingAdd", "EnqueueBlocking", h.subqueues[next],
                            qloc[t].item)
           ELSE /\ qpc' = [qpc EXCEPT ![t] = "QAbort"]
                /\ qloc' = qloc
                /\ NoDispatch(t)
    /\ call' = [call EXCEPT ![t] = Accounted(t)]
    /\ UNCHANGED <<queue, handle, pool, rings, tail_index, claims>>
    /\ QueueFrame

(* Enqueue or EnqueueBlocking returns to the thread, which goes on to its
   next item after true and tries the same item again after false. *)
QReturn(t) ==
    /\ qpc[t] = "QRet"
    /\ qpc' = [qpc EXCEPT ![t] = "QIdle"]
    /\ qloc' = [qloc EXCEPT ![t] = NoQLoc]
    /\ call' = [call EXCEPT ![t] = NoCall]
    /\ sent' = [sent EXCEPT ![t] = IF qloc[t].ret THEN @ + 1 ELSE @]
    /\ accepted' = IF qloc[t].ret THEN accepted \cup {qloc[t].item} ELSE accepted
    /\ UNCHANGED <<queue, handle, pool, deq, solo>>
    /\ RingUntouched /\ UNCHANGED mutexVars /\ UNCHANGED memVars

(* A consumer handle calls Queue::DequeueNext: my_subqueue_->DequeueNext. *)
QCallDequeueNext(t) ==
    /\ qpc[t] = "QIdle"
    /\ handle[t].live /\ Reads(handle[t])
    /\ qpc' = [qpc EXCEPT ![t] = "Deq"]
    /\ qloc' = [qloc EXCEPT ![t] = [NoQLoc EXCEPT !.op = "DequeueNext"]]
    /\ Dispatch(t, "DqCas", "DequeueNext",
                handle[t].subqueues[handle[t].my_subqueue_index], 0)
    /\ UNCHANGED <<queue, handle, pool, call, rings, tail_index, claims>>
    /\ QueueFrame

(* DequeueNext returns to the thread, which keeps the item it got. *)
QDequeued(t) ==
    /\ qpc[t] = "Deq" /\ pc[t] = "Ret"
    /\ qpc' = [qpc EXCEPT ![t] = "QIdle"]
    /\ qloc' = [qloc EXCEPT ![t] = NoQLoc]
    /\ deq' = [deq EXCEPT ![t] = IF loc[t].ret THEN Append(@, loc[t].item) ELSE @]
    /\ NoDispatch(t)
    /\ UNCHANGED <<queue, handle, pool, call, rings, tail_index, claims>>
    /\ UNCHANGED <<sent, accepted, solo>> /\ UNCHANGED mutexVars /\ UNCHANGED memVars

(* A consumer thread constructs a Queue object on the existing queue:
   DoLoad, InitializeLocalState, and MakeOwnSubqueue starts its search. *)
QConstruct(t) ==
    /\ qpc[t] = "QIdle"
    /\ ~handle[t].live /\ Reads(handle[t])
    /\ handle[t].built <= MaxReinit
    /\ handle' = [handle EXCEPT ![t] = NewHandle(handle[t].role, handle[t].built + 1, TRUE)]
    /\ qpc' = [qpc EXCEPT ![t] = "MoScan"]
    /\ qloc' = [qloc EXCEPT ![t] = [NoQLoc EXCEPT !.op = "MakeOwnSubqueue"]]
    /\ UNCHANGED <<queue, pool, call>>
    /\ RingUntouched /\ QueueFrame

\* MakeOwnSubqueue taking the first descriptor that is not valid, with a
\* store to dead in the place of its CompareExchange.
QMoScan_Valid(t) ==
    /\ qpc[t] = "MoScan"
    /\ LET i == qloc[t].i
           seen == queue.queue_offsets[i].valid
       IN  /\ queue' = [queue EXCEPT !.queue_offsets[i].dead = IF seen = 0 THEN 0 ELSE @]
           /\ IF seen = 0
              THEN qpc' = [qpc EXCEPT ![t] = "MoCreate"] /\ qloc' = qloc
              ELSE /\ qloc' = [qloc EXCEPT ![t].i = i + 1]
                   /\ qpc' = [qpc EXCEPT ![t] =
                                  IF i + 1 = kMaxConsumers THEN "QAbort" ELSE "MoScan"]
    /\ UNCHANGED <<handle, pool, call>>
    /\ RingUntouched /\ QueueFrame

(* MakeOwnSubqueue: CompareExchange(&queue_offsets[i].dead, 1, 0); with no
   dead descriptor left the assert ends the process, and a build without
   assertions goes on with queue_index = kMaxConsumers. *)
QMoScan(t) ==
    /\ qpc[t] = "MoScan"
    /\ LET i == qloc[t].i
           seen == queue.queue_offsets[i].dead
       IN  /\ queue' = [queue EXCEPT !.queue_offsets[i].dead = CompareExchange(seen, 1, 0)]
           /\ IF seen = 1
              THEN qpc' = [qpc EXCEPT ![t] = "MoCreate"] /\ qloc' = qloc
              ELSE /\ qloc' = [qloc EXCEPT ![t].i = i + 1]
                   /\ qpc' = [qpc EXCEPT ![t] =
                                  IF i + 1 < kMaxConsumers THEN "MoScan"
                                  ELSE IF ndebug THEN "MoBeyond" ELSE "QAbort"]
    /\ UNCHANGED <<handle, pool, call>>
    /\ RingUntouched /\ QueueFrame

\* Pool::Allocate gives the lowest free place.
AllocateRing == CHOOSE r \in RingIds \ pool : \A s \in RingIds \ pool : r <= s

(* MakeOwnSubqueue: MpscQueue::Create(subqueue_size), kept in
   subqueues_[queue_index], my_subqueue_ and my_subqueue_index_. *)
QMoCreate(t) ==
    /\ qpc[t] = "MoCreate"
    /\ LET r == AllocateRing
       IN  /\ pool' = pool \cup {r}
           /\ rings' = [rings EXCEPT ![r] = DoCreate(queue.subqueue_size)]
           /\ claims' = [claims EXCEPT ![r] = <<>>]
           /\ handle' = [handle EXCEPT ![t].subqueues[qloc[t].i] = r,
                                       ![t].my_subqueue_index = qloc[t].i]
    /\ tail_index' = [tail_index EXCEPT ![t] = 0]
    /\ qpc' = [qpc EXCEPT ![t] = "MoOffset"]
    /\ UNCHANGED <<queue, qloc, call, pc, loc>>
    /\ QueueFrame

(* MakeOwnSubqueue: queue_offsets[queue_index].offset = GetOffset(). *)
QMoOffset(t) ==
    /\ qpc[t] = "MoOffset"
    /\ queue' = [queue EXCEPT !.queue_offsets[qloc[t].i].offset =
                                  handle[t].subqueues[qloc[t].i]]
    /\ qpc' = [qpc EXCEPT ![t] = "MoRefs"]
    /\ UNCHANGED <<handle, qloc, pool, call>>
    /\ RingUntouched /\ QueueFrame

\* MakeOwnSubqueue without its store of num_references.
QMoRefs_NoStore(t) ==
    /\ qpc[t] = "MoRefs"
    /\ queue' = queue
    /\ qpc' = [qpc EXCEPT ![t] = "MoValid"]
    /\ UNCHANGED <<handle, qloc, pool, call>>
    /\ RingUntouched /\ QueueFrame

(* MakeOwnSubqueue: queue_offsets[queue_index].num_references = 1. *)
QMoRefs(t) ==
    /\ qpc[t] = "MoRefs"
    /\ queue' = [queue EXCEPT !.queue_offsets[qloc[t].i].num_references = 1]
    /\ qpc' = [qpc EXCEPT ![t] = "MoValid"]
    /\ UNCHANGED <<handle, qloc, pool, call>>
    /\ RingUntouched /\ QueueFrame

(* MakeOwnSubqueue: Exchange(&valid, 1), then ++last_num_subqueues_ and
   ++last_subqueue_updates_. *)
QMoValid(t) ==
    /\ qpc[t] = "MoValid"
    /\ queue' = [queue EXCEPT !.queue_offsets[qloc[t].i].valid = 1]
    /\ handle' = [handle EXCEPT ![t].last_num_subqueues = @ + 1,
                                ![t].last_subqueue_updates = @ + 1]
    /\ qpc' = [qpc EXCEPT ![t] = "MoUpdates"]
    /\ UNCHANGED <<qloc, pool, call>>
    /\ RingUntouched /\ QueueFrame

(* MakeOwnSubqueue: Increment(&subqueue_updates). *)
QMoUpdates(t) ==
    /\ qpc[t] = "MoUpdates"
    /\ queue' = [queue EXCEPT !.subqueue_updates = @ + 1]
    /\ qpc' = [qpc EXCEPT ![t] = "MoNum"]
    /\ UNCHANGED <<handle, qloc, pool, call>>
    /\ RingUntouched /\ QueueFrame

(* MakeOwnSubqueue: Increment(&num_subqueues); the constructor returns. *)
QMoNum(t) ==
    /\ qpc[t] = "MoNum"
    /\ queue' = [queue EXCEPT !.num_subqueues = @ + 1]
    /\ qpc' = [qpc EXCEPT ![t] = "QIdle"]
    /\ qloc' = [qloc EXCEPT ![t] = NoQLoc]
    /\ UNCHANGED <<handle, pool, call>>
    /\ RingUntouched /\ QueueFrame

(* A consumer thread deletes its Queue object.  ~Queue:
   Exchange(&queue_offsets[my_subqueue_index_].valid, 0). *)
QDestroy(t) ==
    /\ qpc[t] = "QIdle"
    /\ handle[t].live /\ handle[t].role = "reinitializing"
    /\ queue' = [queue EXCEPT !.queue_offsets[handle[t].my_subqueue_index].valid = 0]
    /\ qpc' = [qpc EXCEPT ![t] = "DtNum"]
    /\ qloc' = [qloc EXCEPT ![t] = [NoQLoc EXCEPT !.op = "~Queue"]]
    /\ UNCHANGED <<handle, pool, call>>
    /\ RingUntouched /\ QueueFrame

\* ~Queue without its Decrement(&num_subqueues).
QDtNum_NoDecrement(t) ==
    /\ qpc[t] = "DtNum"
    /\ queue' = queue
    /\ qpc' = [qpc EXCEPT ![t] = "DtUpdates"]
    /\ UNCHANGED <<handle, qloc, pool, call>>
    /\ RingUntouched /\ QueueFrame

(* ~Queue: Decrement(&num_subqueues). *)
QDtNum(t) ==
    /\ qpc[t] = "DtNum"
    /\ queue' = [queue EXCEPT !.num_subqueues = @ - 1]
    /\ qpc' = [qpc EXCEPT ![t] = "DtUpdates"]
    /\ UNCHANGED <<handle, qloc, pool, call>>
    /\ RingUntouched /\ QueueFrame

\* ~Queue without its Increment(&subqueue_updates).
QDtUpdates_NoIncrement(t) ==
    /\ qpc[t] = "DtUpdates"
    /\ queue' = queue
    /\ qpc' = [qpc EXCEPT ![t] = "RemXadd"]
    /\ qloc' = [qloc EXCEPT ![t].i = NextSubqueue(handle[t], 0), ![t].after = "Dtor"]
    /\ UNCHANGED <<handle, pool, call>>
    /\ RingUntouched /\ QueueFrame

(* ~Queue: Increment(&subqueue_updates), then RemoveSubqueue on the first
   subqueue the handle holds. *)
QDtUpdates(t) ==
    /\ qpc[t] = "DtUpdates"
    /\ queue' = [queue EXCEPT !.subqueue_updates = @ + 1]
    /\ qpc' = [qpc EXCEPT ![t] = "RemXadd"]
    /\ qloc' = [qloc EXCEPT ![t].i = NextSubqueue(handle[t], 0), ![t].after = "Dtor"]
    /\ UNCHANGED <<handle, pool, call>>
    /\ RingUntouched /\ QueueFrame

(* --------------------- threads that use one Queue --------------------- *)

\* The threads whose consumer handle exists from the start, and the
\* descriptor each of them got: they ran MakeOwnSubqueue one after the other.
Constructed(roles) == {t \in DOMAIN roles : roles[t] = "consumer"}

DescriptorOf(roles, t) == Cardinality({u \in Constructed(roles) : u < t})

\* The members of a consumer handle after MakeOwnSubqueue took descriptor i
\* and created ring r for it.
OwnSubqueueMade(role, i, r) ==
    [NewHandle(role, 1, TRUE) EXCEPT !.subqueues[i] = r,
                                     !.my_subqueue_index = i,
                                     !.last_num_subqueues = 1,
                                     !.last_subqueue_updates = 1]

\* A queue created by a producer handle, the producers' objects loaded, the
\* handles of the "consumer" threads constructed, and the handle of a
\* "reinitializing" thread not yet.
QueueCreated(roles) ==
    /\ \E garbage \in {0, 1} :
          queue = [QueueDoCreate(SubqueueSize, garbage) EXCEPT
                      !.num_subqueues = Cardinality(Constructed(roles)),
                      !.subqueue_updates = Cardinality(Constructed(roles)),
                      !.queue_offsets = [i \in Descriptors |->
                          IF i < Cardinality(Constructed(roles))
                          THEN [offset |-> i, valid |-> 1, dead |-> 0, num_references |-> 1]
                          ELSE @[i]]]
    /\ handle = [t \in DOMAIN roles |->
                    IF t \in Constructed(roles)
                    THEN OwnSubqueueMade(roles[t], DescriptorOf(roles, t), DescriptorOf(roles, t))
                    ELSE NewHandle(roles[t], 0, roles[t] \in {"Enqueue", "EnqueueBlocking"})]
    /\ qpc = [t \in DOMAIN roles |-> "QIdle"]
    /\ qloc = [t \in DOMAIN roles |-> NoQLoc]
    /\ pool = {r \in RingIds : r < Cardinality(Constructed(roles))}
    /\ call = [t \in DOMAIN roles |-> NoCall]
    /\ rings = [r \in RingIds |-> DoCreate(SubqueueSize)]
    /\ tail_index = [t \in DOMAIN roles |-> 0]
    /\ pc = [t \in DOMAIN roles |-> "Idle"]
    /\ loc = [t \in DOMAIN roles |-> NoLoc]
    /\ sent = [t \in DOMAIN roles |-> 0]
    /\ deq = [t \in DOMAIN roles |-> <<>>]
    /\ claims = [r \in RingIds |-> <<>>]
    /\ accepted = {}
    /\ solo = [t \in DOMAIN roles |-> -1]
    /\ UnusedMap
    /\ UnusedShm

\* The same, in a run that leaves the pool's allocation lock out.
QueueInit(roles) == QueueCreated(roles) /\ UnusedMutex /\ UnusedPool

\* One producer handle calls Enqueue and two consumer threads call
\* DequeueNext; one of them constructs its handle, deletes it and constructs
\* it again meanwhile.
QueueNext ==
    \/ \E t \in DOMAIN qpc : QCallEnqueue(t)
    \* The steps of IncorporateNewSubqueues and AddSubqueue.
    \/ \E t \in DOMAIN qpc : QIncRead(t)
    \/ \E t \in DOMAIN qpc : QIncScan(t)
    \/ \E t \in DOMAIN qpc : QAddRead(t)
    \/ \E t \in DOMAIN qpc : QAddCas(t)
    \/ \E t \in DOMAIN qpc : QAddLoad(t)
    \* The steps of RemoveSubqueue.
    \/ \E t \in DOMAIN qpc : QRemXadd(t)
    \/ \E t \in DOMAIN qpc : QRemFree(t)
    \/ \E t \in DOMAIN qpc : QRemDead(t)
    \* The steps of Queue::Enqueue and of the ring calls it makes.
    \/ \E t \in DOMAIN qpc : QEnqueueBegin(t)
    \/ \E t \in DOMAIN qpc : QEnqReserved(t)
    \/ \E t \in DOMAIN qpc : QEnqCancelled(t)
    \/ \E t \in DOMAIN qpc : QEnqWritten(t)
    \/ \E t \in DOMAIN qpc : QReturn(t)
    \/ \E t \in DOMAIN qpc : ReserveExchangeAdd(t)
    \/ \E t \in DOMAIN qpc : ReserveDecrement(t)
    \/ \E t \in DOMAIN qpc : CancelReservation(t)
    \/ \E t \in DOMAIN qpc : ClaimHead(t)
    \/ \E t \in DOMAIN qpc : WrapHead(t)
    \/ \E t \in DOMAIN qpc : TakeTicket(t)
    \/ \E t \in DOMAIN qpc : CopyItem(t)
    \/ \E t \in DOMAIN qpc : Publish(t)
    \/ \E t \in DOMAIN qpc : QCallDequeueNext(t)
    \* The steps of DequeueNext.
    \/ \E t \in DOMAIN qpc : DqCompareExchange(t)
    \/ \E t \in DOMAIN qpc : DqRead(t)
    \/ \E t \in DOMAIN qpc : DqIncrementWoken(t)
    \/ \E t \in DOMAIN qpc : DqDecrement(t)
    \/ \E t \in DOMAIN qpc : QDequeued(t)
    \* The steps of the constructor and the destructor of a consumer handle.
    \/ \E t \in DOMAIN qpc : QConstruct(t)
    \/ \E t \in DOMAIN qpc : QMoScan(t)
    \/ \E t \in DOMAIN qpc : QMoCreate(t)
    \/ \E t \in DOMAIN qpc : QMoOffset(t)
    \/ \E t \in DOMAIN qpc : QMoRefs(t)
    \/ \E t \in DOMAIN qpc : QMoValid(t)
    \/ \E t \in DOMAIN qpc : QMoUpdates(t)
    \/ \E t \in DOMAIN qpc : QMoNum(t)
    \/ \E t \in DOMAIN qpc : QDestroy(t)
    \/ \E t \in DOMAIN qpc : QDtNum(t)
    \/ \E t \in DOMAIN qpc : QDtUpdates(t)

SpecQueue == QueueInit(<<"Enqueue", "reinitializing", "consumer">>) /\ [][QueueNext]_vars

\* One producer handle calls Enqueue, another calls EnqueueBlocking, and the
\* consumer handle calls DequeueNext.
QueueBlockingNext ==
    \/ \E t \in DOMAIN qpc : QCallEnqueue(t)
    \/ \E t \in DOMAIN qpc : QCallEnqueueBlocking(t)
    \* The steps of IncorporateNewSubqueues and AddSubqueue.
    \/ \E t \in DOMAIN qpc : QIncRead(t)
    \/ \E t \in DOMAIN qpc : QIncScan(t)
    \/ \E t \in DOMAIN qpc : QAddRead(t)
    \/ \E t \in DOMAIN qpc : QAddCas(t)
    \/ \E t \in DOMAIN qpc : QAddLoad(t)
    \* The steps of Queue::Enqueue on a handle that has cached one ring.
    \/ \E t \in DOMAIN qpc : QEnqueueBegin(t)
    \/ \E t \in DOMAIN qpc : QEnqReserved(t)
    \/ \E t \in DOMAIN qpc : QEnqWritten(t)
    \/ \E t \in DOMAIN qpc : QReturn(t)
    \/ \E t \in DOMAIN qpc : ReserveExchangeAdd(t)
    \/ \E t \in DOMAIN qpc : ReserveDecrement(t)
    \/ \E t \in DOMAIN qpc : ClaimHead(t)
    \/ \E t \in DOMAIN qpc : WrapHead(t)
    \/ \E t \in DOMAIN qpc : TakeTicket(t)
    \/ \E t \in DOMAIN qpc : CopyItem(t)
    \/ \E t \in DOMAIN qpc : Publish(t)
    \* The further steps of Queue::EnqueueBlocking.
    \/ \E t \in DOMAIN qpc : QEnqueueBlockingBegin(t)
    \/ \E t \in DOMAIN qpc : QEnqbWritten(t)
    \/ \E t \in DOMAIN qpc : BlockingIncrement(t)
    \/ \E t \in DOMAIN qpc : WbRead(t)
    \/ \E t \in DOMAIN qpc : WbFutexWait(t)
    \/ \E t \in DOMAIN qpc : QCallDequeueNext(t)
    \* The steps of DequeueNext.
    \/ \E t \in DOMAIN qpc : DqCompareExchange(t)
    \/ \E t \in DOMAIN qpc : DqRead(t)
    \/ \E t \in DOMAIN qpc : DqIncrementWoken(t)
    \/ \E t \in DOMAIN qpc : DqDecrement(t)
    \/ \E t \in DOMAIN qpc : QDequeued(t)

SpecQueueBlocking ==
    QueueInit(<<"Enqueue", "EnqueueBlocking", "consumer">>) /\ [][QueueBlockingNext]_vars

\* One producer handle calls Enqueue or EnqueueBlocking, and the only consumer
\* handle is constructed, read from and deleted meanwhile, so that the Queue
\* has no subqueue at times.
QueueChurnNext ==
    \/ \E t \in DOMAIN qpc : QCallEnqueue(t)
    \/ \E t \in DOMAIN qpc : QCallEnqueueBlocking(t)
    \* The steps of IncorporateNewSubqueues, AddSubqueue and RemoveSubqueue.
    \/ \E t \in DOMAIN qpc : QIncRead(t)
    \/ \E t \in DOMAIN qpc : QIncScan(t)
    \/ \E t \in DOMAIN qpc : QAddRead(t)
    \/ \E t \in DOMAIN qpc : QAddCas(t)
    \/ \E t \in DOMAIN qpc : QAddLoad(t)
    \/ \E t \in DOMAIN qpc : QRemXadd(t)
    \/ \E t \in DOMAIN qpc : QRemFree(t)
    \/ \E t \in DOMAIN qpc : QRemDead(t)
    \* The steps of Queue::Enqueue on a handle that has cached at most one ring.
    \/ \E t \in DOMAIN qpc : QEnqueueBegin(t)
    \/ \E t \in DOMAIN qpc : QEnqReserved(t)
    \/ \E t \in DOMAIN qpc : QEnqWritten(t)
    \/ \E t \in DOMAIN qpc : QReturn(t)
    \/ \E t \in DOMAIN qpc : ReserveExchangeAdd(t)
    \/ \E t \in DOMAIN qpc : ReserveDecrement(t)
    \/ \E t \in DOMAIN qpc : ClaimHead(t)
    \/ \E t \in DOMAIN qpc : WrapHead(t)
    \/ \E t \in DOMAIN qpc : TakeTicket(t)
    \/ \E t \in DOMAIN qpc : CopyItem(t)
    \/ \E t \in DOMAIN qpc : Publish(t)
    \* The further steps of Queue::EnqueueBlocking.
    \/ \E t \in DOMAIN qpc : QEnqueueBlockingBegin(t)
    \/ \E t \in DOMAIN qpc : QEnqbWritten(t)
    \/ \E t \in DOMAIN qpc : BlockingIncrement(t)
    \/ \E t \in DOMAIN qpc : WbRead(t)
    \/ \E t \in DOMAIN qpc : WbFutexWait(t)
    \* The steps of DequeueNext.
    \/ \E t \in DOMAIN qpc : QCallDequeueNext(t)
    \/ \E t \in DOMAIN qpc : DqCompareExchange(t)
    \/ \E t \in DOMAIN qpc : DqRead(t)
    \/ \E t \in DOMAIN qpc : DqIncrementWoken(t)
    \/ \E t \in DOMAIN qpc : DqDecrement(t)
    \/ \E t \in DOMAIN qpc : QDequeued(t)
    \* The steps of the constructor and the destructor of the consumer handle.
    \/ \E t \in DOMAIN qpc : QConstruct(t)
    \/ \E t \in DOMAIN qpc : QMoScan(t)
    \/ \E t \in DOMAIN qpc : QMoCreate(t)
    \/ \E t \in DOMAIN qpc : QMoOffset(t)
    \/ \E t \in DOMAIN qpc : QMoRefs(t)
    \/ \E t \in DOMAIN qpc : QMoValid(t)
    \/ \E t \in DOMAIN qpc : QMoUpdates(t)
    \/ \E t \in DOMAIN qpc : QMoNum(t)
    \/ \E t \in DOMAIN qpc : QDestroy(t)
    \/ \E t \in DOMAIN qpc : QDtNum(t)
    \/ \E t \in DOMAIN qpc : QDtUpdates(t)

\* The producer handle makes one kind of call for the whole run.
QueueChurnInit ==
    \E role \in {"Enqueue", "EnqueueBlocking"} : QueueInit(<<role, "reinitializing">>)

SpecQueueChurn == QueueChurnInit /\ [][QueueChurnNext]_vars

\* A consumer handle that stays, and two threads that each construct a
\* consumer handle, delete it and construct it again, at the same time.
QueueOwnersInit == QueueInit(<<"consumer", "reinitializing", "reinitializing">>)

QueueOwnersNext ==
    \* The steps of the constructor of a consumer handle.
    \/ \E t \in DOMAIN qpc : QConstruct(t)
    \/ \E t \in DOMAIN qpc : QMoScan(t)
    \/ \E t \in DOMAIN qpc : QMoCreate(t)
    \/ \E t \in DOMAIN qpc : QMoOffset(t)
    \/ \E t \in DOMAIN qpc : QMoRefs(t)
    \/ \E t \in DOMAIN qpc : QMoValid(t)
    \/ \E t \in DOMAIN qpc : QMoUpdates(t)
    \/ \E t \in DOMAIN qpc : QMoNum(t)
    \* The steps of its destructor and of RemoveSubqueue.
    \/ \E t \in DOMAIN qpc : QDestroy(t)
    \/ \E t \in DOMAIN qpc : QDtNum(t)
    \/ \E t \in DOMAIN qpc : QDtUpdates(t)
    \/ \E t \in DOMAIN qpc : QRemXadd(t)
    \/ \E t \in DOMAIN qpc : QRemFree(t)
    \/ \E t \in DOMAIN qpc : QRemDead(t)

SpecQueueOwners == QueueOwnersInit /\ [][QueueOwnersNext]_vars

\* The ring MpscQueue::Create allocates when the places of the rings of
\* kMaxConsumers consumers are taken.
BeyondRing == kMaxConsumers + 1

\* f with f[i] = v, i being in the domain of f or not.
Store(f, i, v) == [j \in DOMAIN f \cup {i} |-> IF j = i THEN v ELSE f[j]]

(* MakeOwnSubqueue with queue_index = kMaxConsumers, in a build without
   assertions: MpscQueue::Create, the stores to subqueues_[kMaxConsumers],
   my_subqueue_index_ and queue_offsets[kMaxConsumers] (offset,
   num_references, valid), which are behind the two arrays, and the two
   increments of the handle.  The store behind subqueues_ is a store into
   the heap of the process, which can end the process. *)
QMoBeyond(t) ==
    /\ qpc[t] = "MoBeyond"
    /\ pool' = pool \cup {BeyondRing}
    /\ \/ /\ qpc' = [qpc EXCEPT ![t] = "QAbort"]
          /\ UNCHANGED <<queue, handle>>
       \/ /\ queue' = [queue EXCEPT !.queue_offsets =
                          Store(@, kMaxConsumers,
                                [offset |-> BeyondRing, valid |-> 1, dead |-> 0,
                                 num_references |-> 1])]
          /\ handle' = [handle EXCEPT ![t].subqueues = Store(@, kMaxConsumers, BeyondRing),
                                      ![t].my_subqueue_index = kMaxConsumers,
                                      ![t].last_num_subqueues = @ + 1,
                                      ![t].last_subqueue_updates = @ + 1]
          /\ qpc' = [qpc EXCEPT ![t] = "MoUpdates"]
    /\ UNCHANGED <<qloc, call>>
    /\ RingUntouched /\ UNCHANGED <<sent, deq, accepted, solo>>
    /\ UNCHANGED mutexVars /\ UNCHANGED memVars

\* kMaxConsumers consumer handles that stay and a thread that constructs one
\* more, in a build with assertions or without.
QueueFullInit ==
    /\ QueueCreated([t \in 1 .. kMaxConsumers + 1 |->
                        IF t <= kMaxConsumers THEN "consumer" ELSE "reinitializing"])
    /\ UnusedPool
    /\ state = mutex_init
    /\ mpc = <<>>
    /\ ndebug \in BOOLEAN
    /\ aborted = FALSE
    /\ release = <<>>

QueueFullNext ==
    \* The steps of the constructor of the handle that is one too many.
    \/ \E t \in DOMAIN qpc : QConstruct(t)
    \/ \E t \in DOMAIN qpc : QMoScan(t)
    \/ \E t \in DOMAIN qpc : QMoBeyond(t)
    \/ \E t \in DOMAIN qpc : QMoUpdates(t)
    \/ \E t \in DOMAIN qpc : QMoNum(t)
    \* The steps of DequeueNext on the handles that exist.
    \/ \E t \in 1 .. kMaxConsumers : QCallDequeueNext(t)
    \/ \E t \in DOMAIN qpc : DqCompareExchange(t)
    \/ \E t \in DOMAIN qpc : QDequeued(t)

SpecQueueFull == QueueFullInit /\ [][QueueFullNext]_vars

(* ------------- the Queue and the pool's allocation lock --------------- *)

\* The pool calls of MpscQueue::DoCreate (AllocateForType<RawQueue>, then
\* AllocateForArray<Node>) and of MpscQueue::FreeQueue (FreeArray<Node>, then
\* FreeType<RawQueue>): each is Pool::Allocate or Pool::Free, which runs
\* between MutexGrab and MutexRelease on header_->allocation_lock.
PoolCalls == 2

\* What a step of the lock leaves alone in the Queue.
LockFrame == UNCHANGED <<state, aborted, release, ndebug>>

(* MakeOwnSubqueue or RemoveSubqueue enters its next pool call:
   MutexGrab(&(header_->allocation_lock)) begins; k counts the pool calls
   begun. *)
QPoolGrab(t) ==
    /\ qpc[t] \in {"MoCreate", "RemFree"}
    /\ mpc[t] = "Out" /\ qloc[t].k < PoolCalls
    /\ mpc' = [mpc EXCEPT ![t] = "GrabCas"]
    /\ qloc' = [qloc EXCEPT ![t].k = @ + 1]
    /\ UNCHANGED <<queue, handle, qpc, pool, call>>
    /\ LockFrame
    /\ RingUntouched /\ UNCHANGED <<sent, deq, accepted, solo>> /\ UNCHANGED memVars

(* RemoveSubqueue: subqueues_[index]->FreeQueue() has made both its
   Pool::Free calls. *)
QRemFreed(t) ==
    /\ qpc[t] = "RemFree"
    /\ mpc[t] = "Out" /\ qloc[t].k = PoolCalls
    /\ pool' = pool \ {handle[t].subqueues[qloc[t].i]}
    /\ qpc' = [qpc EXCEPT ![t] = "RemDead"]
    /\ qloc' = [qloc EXCEPT ![t].k = 0]
    /\ UNCHANGED <<queue, handle, call, mpc>>
    /\ LockFrame
    /\ RingUntouched /\ UNCHANGED <<sent, deq, accepted, solo>> /\ UNCHANGED memVars

(* MakeOwnSubqueue: MpscQueue::Create(subqueue_size) has made both its
   Pool::Allocate calls; the ring is kept in subqueues_[queue_index]. *)
QMoCreated(t) ==
    /\ qpc[t] = "MoCreate"
    /\ mpc[t] = "Out" /\ qloc[t].k = PoolCalls
    /\ LET r == AllocateRing
       IN  /\ pool' = pool \cup {r}
           /\ rings' = [rings EXCEPT ![r] = DoCreate(queue.subqueue_size)]
           /\ claims' = [claims EXCEPT ![r] = <<>>]
           /\ handle' = [handle EXCEPT ![t].subqueues[qloc[t].i] = r,
                                       ![t].my_subqueue_index = qloc[t].i]
    /\ tail_index' = [tail_index EXCEPT ![t] = 0]
    /\ qpc' = [qpc EXCEPT ![t] = "MoOffset"]
    /\ qloc' = [qloc EXCEPT ![t].k = 0]
    /\ UNCHANGED <<queue, call, pc, loc, mpc>>
    /\ LockFrame
    /\ UNCHANGED <<sent, deq, accepted, solo>> /\ UNCHANGED memVars

\* A Queue with a producer handle and a thread that constructs and deletes
\* the consumer handle, and the pool's allocation lock after MutexInit, no
\* thread in it, in either build.
QueueLockInit ==
    /\ QueueCreated(<<"Enqueue", "reinitializing">>)
    /\ UnusedPool
    /\ state = mutex_init
    /\ mpc = [t \in 1 .. 2 |-> "Out"]
    /\ ndebug \in BOOLEAN
    /\ aborted = FALSE
    /\ release = [t \in 1 .. 2 |-> NoRelease]

\* The producer handle calls Enqueue; the consumer handle is constructed,
\* read from and deleted; every ring is allocated and freed under the lock.
QueueLockNext ==
    \/ \E t \in DOMAIN qpc : QCallEnqueue(t)
    \* The steps of IncorporateNewSubqueues, AddSubqueue and RemoveSubqueue.
    \/ \E t \in DOMAIN qpc : QIncRead(t)
    \/ \E t \in DOMAIN qpc : QIncScan(t)
    \/ \E t \in DOMAIN qpc : QAddRead(t)
    \/ \E t \in DOMAIN qpc : QAddCas(t)
    \/ \E t \in DOMAIN qpc : QAddLoad(t)
    \/ \E t \in DOMAIN qpc : QRemXadd(t)
    \/ \E t \in DOMAIN qpc : QRemFreed(t)
    \/ \E t \in DOMAIN qpc : QRemDead(t)
    \* The pool calls and the steps of MutexGrab and MutexRelease in them.
    \/ \E t \in DOMAIN qpc : QPoolGrab(t)
    \/ \E t \in DOMAIN qpc : GrabCas(t)
    \/ \E t \in DOMAIN qpc : GrabCheck(t)
    \/ \E t \in DOMAIN qpc : GrabMark(t)
    \/ \E t \in DOMAIN qpc : GrabFutexWait(t)
    \/ \E t \in DOMAIN qpc : GrabRetry(t)
    \/ \E t \in DOMAIN qpc : ReleaseAssert(t)
    \/ \E t \in DOMAIN qpc : ReleaseDecrement(t)
    \/ \E t \in DOMAIN qpc : ReleaseRead(t)
    \/ \E t \in DOMAIN qpc : ReleaseStore(t)
    \/ \E t \in DOMAIN qpc : ReleaseWake(t)
    \* The steps of Queue::Enqueue and of the ring calls it makes.
    \/ \E t \in DOMAIN qpc : QEnqueueBegin(t)
    \/ \E t \in DOMAIN qpc : QEnqReserved(t)
    \/ \E t \in DOMAIN qpc : QEnqWritten(t)
    \/ \E t \in DOMAIN qpc : QReturn(t)
    \/ \E t \in DOMAIN qpc : ReserveExchangeAdd(t)
    \/ \E t \in DOMAIN qpc : ReserveDecrement(t)
    \/ \E t \in DOMAIN qpc : ClaimHead(t)
    \/ \E t \in DOMAIN qpc : WrapHead(t)
    \/ \E t \in DOMAIN qpc : TakeTicket(t)
    \/ \E t \in DOMAIN qpc : CopyItem(t)
    \/ \E t \in DOMAIN qpc : Publish(t)
    \* The steps of DequeueNext.
    \/ \E t \in DOMAIN qpc : QCallDequeueNext(t)
    \/ \E t \in DOMAIN qpc : DqCompareExchange(t)
    \/ \E t \in DOMAIN qpc : DqRead(t)
    \/ \E t \in DOMAIN qpc : DqIncrementWoken(t)
    \/ \E t \in DOMAIN qpc : DqDecrement(t)
    \/ \E t \in DOMAIN qpc : QDequeued(t)
    \* The steps of the constructor and the destructor of the consumer handle.
    \/ \E t \in DOMAIN qpc : QConstruct(t)
    \/ \E t \in DOMAIN qpc : QMoScan(t)
    \/ \E t \in DOMAIN qpc : QMoCreated(t)
    \/ \E t \in DOMAIN qpc : QMoOffset(t)
    \/ \E t \in DOMAIN qpc : QMoRefs(t)
    \/ \E t \in DOMAIN qpc : QMoValid(t)
    \/ \E t \in DOMAIN qpc : QMoUpdates(t)
    \/ \E t \in DOMAIN qpc : QMoNum(t)
    \/ \E t \in DOMAIN qpc : QDestroy(t)
    \/ \E t \in DOMAIN qpc : QDtNum(t)
    \/ \E t \in DOMAIN qpc : QDtUpdates(t)

SpecQueueLock == QueueLockInit /\ [][QueueLockNext]_vars

(* ------------------------- claims about the ring ---------------------- *)

Occurrences(seq, v) == Cardinality({i \in 1 .. Len(seq) : seq[i] = v})

\* The committed nodes of ring r that hold item v.
InSlots(r, v) == Cardinality({s \in Filled(r) : rings[r].value[s] = v})

\* Thread t has taken item v out of its node and has not yet returned it.
Holds(t, v) ==
    \/ pc[t] = "DqRead" /\ rings[loc[t].ring].value[tail_index[t]] = v
    \/ /\ pc[t] \in {"DqWoken", "DqDecr", "DqbXadd", "DqbWake", "Ret"}
       /\ loc[t].op \in {"DequeueNext", "DequeueNextBlocking"}
       /\ loc[t].ret
       /\ loc[t].item = v

\* The items whose Enqueue has committed and is about to return true.
Returning == {loc[t].item : t \in {u \in Producers : pc[u] = "Ret" /\ loc[u].ret}}

\* C4: with producers calling Enqueue and the consumer calling DequeueNext,
\* every item whose Enqueue returned true is in exactly one place (a committed
\* node, the consumer's hands, or the values DequeueNext has returned), and
\* DequeueNext returns nothing else and nothing twice: the two multisets are
\* equal once the ring is drained.
C4_NoLossNoDuplicate ==
    /\ \A v \in accepted :
          Occurrences(deq[Consumer], v) + InSlots(0, v)
              + (IF Holds(Consumer, v) THEN 1 ELSE 0) = 1
    /\ \A i \in 1 .. Len(deq[Consumer]) :
          /\ deq[Consumer][i] \in accepted \cup Returning
          /\ \A j \in 1 .. Len(deq[Consumer]) : i # j => deq[Consumer][i] # deq[Consumer][j]

\* C4 witness: every producer has had all its items accepted, an Enqueue was
\* refused in between, and the consumer has dequeued them all.
C4_Witness ==
    /\ \A t \in Producers : sent[t] = MaxItems /\ pc[t] = "Idle"
    /\ Len(deq[Consumer]) = NumProducers * MaxItems
    /\ Cardinality(accepted) = NumProducers * MaxItems

\* The place of item v in the order of the head_index claims of ring r.
ClaimIndex(r, v) == CHOOSE i \in 1 .. Len(claims[r]) : claims[r][i] = v

\* C5: the consumer's dequeue calls return items that writers claimed, in the
\* order of their claims of head_index and none twice, and DequeueNext returns
\* false exactly when the node at tail_index_ is not committed.
C5_DequeueInClaimOrder ==
    /\ \A i \in 1 .. Len(deq[Consumer]) :
          /\ \E k \in 1 .. Len(claims[0]) : claims[0][k] = deq[Consumer][i]
          /\ \A j \in 1 .. Len(deq[Consumer]) :
                i < j => ClaimIndex(0, deq[Consumer][i]) < ClaimIndex(0, deq[Consumer][j])
    /\ (pc[Consumer] = "Ret" /\ loc[Consumer].op = "DequeueNext")
          => (loc[Consumer].ret <=> loc[Consumer].old_valid = 1)

\* C6: an Enqueue that ran with no concurrent operation returned true exactly
\* when the ring held fewer than array_length items, and then holds one more;
\* a DequeueNext that ran alone on a ring with items took one out, so the
\* Enqueue after it finds room.
C6_Capacity ==
    /\ \A t \in Producers :
          (pc[t] = "Ret" /\ solo[t] >= 0) =>
              /\ loc[t].ret <=> solo[t] < rings[0].array_length
              /\ Cardinality(Filled(0)) = solo[t] + (IF loc[t].ret THEN 1 ELSE 0)
    /\ (pc[Consumer] = "Ret" /\ solo[Consumer] >= 0) =>
              /\ loc[Consumer].ret <=> solo[Consumer] > 0
              /\ Cardinality(Filled(0)) = solo[Consumer] - (IF loc[Consumer].ret THEN 1 ELSE 0)

\* C6 witness: on a ring of more than one node, an Enqueue that ran alone was
\* refused because the ring held array_length items.
C6_Witness ==
    \E t \in Producers :
        /\ pc[t] = "Ret" /\ ~loc[t].ret
        /\ rings[0].array_length > 1
        /\ solo[t] = rings[0].array_length

\* C7: no writer's Exchange(&valid, 1) finds valid == 1.
C7_NoOverwrite ==
    \A t \in Producers : pc[t] \in {"Ret", "WakeReader"} => loc[t].old_valid # 1

\* C8: once the consumer has returned from the dequeue that vacated a node, no
\* producer whose turn at that node has come is still asleep in FutexWait.
C8_BlockedProducerProceeds ==
    \A t \in Producers :
        ~ /\ pc[t] = "WbSleep"
          /\ ~MustWait(rings[0].write_waiters[loc[t].old_head], loc[t].my_wait_number)
          /\ pc[Consumer] = "Idle"

\* C9: the consumer is asleep in FutexWait on a committed node only while the
\* committing writer's FutexWake is still to come, and DequeueNextBlocking
\* reads a node only after it found valid == 1 there.
C9_BlockedConsumerProceeds ==
    /\ (pc[Consumer] = "DqbSleep" /\ rings[0].valid[tail_index[Consumer]] # 2) =>
          \E t \in Producers : pc[t] = "WakeReader" /\ loc[t].old_head = tail_index[Consumer]
    /\ (pc[Consumer] = "DqRead" /\ loc[Consumer].op = "DequeueNextBlocking") =>
          loc[Consumer].old_valid = 1

\* C9 witness: the consumer sleeps on a node that a writer has just committed.
C9_Witness ==
    /\ pc[Consumer] = "DqbSleep"
    /\ rings[0].valid[tail_index[Consumer]] = 1
    /\ \E t \in Producers : pc[t] = "WakeReader"

(* ------------------------ claims about the Queue ---------------------- *)

\* The thread whose handle enqueued item m.
ProducerOf(m) == m \div 10

\* The ring a consumer handle reads.
OwnRing(t) == handle[t].subqueues[handle[t].my_subqueue_index]

\* The elements of a sequence.
Range(seq) == {seq[k] : k \in 1 .. Len(seq)}

\* C1: an item whose Queue::Enqueue returned true is, for every consumer
\* handle that was constructed before the call and is never destroyed, in
\* exactly one place: a committed node of that consumer's ring, the
\* consumer's hands, or the items its DequeueNext has returned.
C1_FanOutExactlyOnce ==
    \A m \in accepted :
        handle[ProducerOf(m)].role = "Enqueue" =>
            \A c \in {u \in DOMAIN handle : handle[u].role = "consumer"} :
                Occurrences(deq[c], m) + InSlots(OwnRing(c), m)
                    + (IF Holds(c, m) THEN 1 ELSE 0) = 1

\* C2: when Queue::Enqueue returns, either a Reserve failed, and then
\* EnqueueAt was called on no ring, CancelReservation was called exactly once
\* on each ring reserved before and the call has changed no ring's
\* write_length; or it returns true having called EnqueueAt exactly once on
\* every ring the handle has cached and CancelReservation on none.
C2_AllOrNothing ==
    \A t \in DOMAIN qpc :
        (qpc[t] = "QRet" /\ qloc[t].op = "Enqueue") =>
            LET c == call[t]
                h == handle[t]
            IN  /\ ~qloc[t].ret <=> (c.failed \/ h.last_num_subqueues = 0)
                /\ c.failed =>
                      /\ c.written = <<>>
                      /\ c.cancelled = c.reserved
                      /\ Cardinality(Range(c.cancelled)) = Len(c.cancelled)
                      /\ \A r \in RingIds : c.delta[r] = 0
                /\ qloc[t].ret =>
                      /\ c.cancelled = <<>>
                      /\ Range(c.written) = CachedRings(h)
                      /\ Len(c.written) = Cardinality(CachedRings(h))
                      /\ \A r \in CachedRings(h) : c.delta[r] = 1

\* C2 witness: Enqueue returns false after Reserve succeeded on one ring and
\* failed on the next.
C2_Witness ==
    \E t \in DOMAIN qpc :
        /\ qpc[t] = "QRet" /\ qloc[t].op = "Enqueue"
        /\ call[t].failed
        /\ Len(call[t].cancelled) >= 1

\* C3: every thread's dequeue calls return the items of one producer handle
\* in strictly increasing enqueue order.
C3_PerProducerOrder ==
    \A c \in DOMAIN deq :
        \A i, j \in 1 .. Len(deq[c]) :
            (i < j /\ ProducerOf(deq[c][i]) = ProducerOf(deq[c][j])) => deq[c][i] < deq[c][j]

(* ------------------------ claims about the mutex ---------------------- *)

\* The threads between a returned mutex_grab and the start of mutex_release.
Holders == {t \in DOMAIN mpc : mpc[t] = "Held"}

\* C10: at most one thread is between a returned mutex_grab and the start of
\* its matching mutex_release.
C10_MutualExclusion == Cardinality(Holders) <= 1

\* The threads inside mutex_release.
Releasing == {t \in DOMAIN mpc : mpc[t] \in {"RelDec", "RelRead", "RelStore", "RelWake"}}

\* C11: the state word is 0, 1 or 2 in every reachable state, and a
\* mutex_release that was called while the word was 2 does not return without
\* having stored 0 and issued the wake of one waiter.
C11_StateWord ==
    /\ state \in {0, 1, 2}
    /\ \A t \in DOMAIN mpc :
          (release[t].called = 2 /\ t \notin Releasing /\ mpc[t] # "Abort") => release[t].woke

\* C12: the system is never in a state where a waiter sleeps on the futex,
\* the state word is not 0, and no thread holds the mutex or is inside
\* mutex_release (so that no wake is pending and none can follow).
C12_NoStrandedWaiter ==
    ~(/\ ~aborted
      /\ MutexSleepers # {}
      /\ state # 0
      /\ Holders = {}
      /\ Releasing = {})

(* ------------------------------ the pool ------------------------------ *)

\* The pool sizes that are tried give MinPoolBlocks .. MaxPoolBlocks blocks.
MinPoolBlocks == 8
MaxPoolBlocks == 9
\* The largest request, in blocks.
MaxRequestBlocks == 3
\* The largest request to AllocateAt, in blocks.
MaxPlacementBlocks == 2
\* The calls that are made on one pool.
MaxCalls == 4

\* The size of one block of the pool, in bytes.
kBlockSize == 128
INT_MAX == 2147483647
\* uint8_t: the width of one byte of the allocation bitmap.
kByte == 256

\* The C operators &, | and ~ on uint8_t operands.
RECURSIVE AndBits(_, _, _)
AndBits(a, b, n) ==
    IF n = 0 THEN 0
    ELSE (IF a % 2 = 1 /\ b % 2 = 1 THEN 1 ELSE 0) + 2 * AndBits(a \div 2, b \div 2, n - 1)

BitAnd(a, b) == AndBits(a, b, 8)

BitOr(a, b) == a + b - BitAnd(a, b)

BitNot(a) == (kByte - 1) - a

\* int division, which truncates toward zero.
IntDiv(a, b) == IF a >= 0 THEN a \div b ELSE -((-a) \div b)

\* A byte of the bitmap; outside is what memory holds beyond its ends.
LoadByte(bitmap, i, outside) == IF i \in DOMAIN bitmap THEN bitmap[i] ELSE outside

\* The bitmap byte and the bit mask of each of two blocks.
SegmentOf(start_block, end_block) ==
    [start_index |-> start_block \div 8,
     start_mask |-> 2 ^ (start_block % 8),
     end_index |-> end_block \div 8,
     end_mask |-> 2 ^ (end_block % 8)]

\* DefineSegment: the bitmap bytes and bit masks of the first and the last
\* block of size bytes that start offset bytes into the data.
DefineSegment(offset, size) ==
    SegmentOf(IntDiv(offset, kBlockSize), IntDiv(offset + size - 1, kBlockSize))

\* The stores of Pool::SetSegment once its masks are adapted: first_mask
\* goes into byte start_index, then last_mask into byte end_index, and the
\* bytes between them are filled.
SetBytes(bitmap, start_index, first_mask, end_index, last_mask, value) ==
    [i \in DOMAIN bitmap |->
        IF start_index < i /\ i < end_index
        THEN (IF value = 1 THEN kByte - 1 ELSE 0)
        ELSE IF i = end_index /\ i = start_index
             THEN (IF value = 1 THEN BitOr(BitOr(bitmap[i], first_mask), last_mask)
                   ELSE BitAnd(BitAnd(bitmap[i], BitNot(first_mask)), BitNot(last_mask)))
        ELSE IF i = start_index
             THEN (IF value = 1 THEN BitOr(bitmap[i], first_mask)
                   ELSE BitAnd(bitmap[i], BitNot(first_mask)))
        ELSE IF i = end_index
             THEN (IF value = 1 THEN BitOr(bitmap[i], last_mask)
                   ELSE BitAnd(bitmap[i], BitNot(last_mask)))
        ELSE bitmap[i]]

\* Pool::SetSegment: the bitmap after the bits from start_mask of byte
\* start_index to end_mask of byte end_index are set to value.  A store
\* beyond the ends of the bitmap changes no byte of it.
SetSegment(bitmap, start_index, start_mask, end_index, end_mask, value) ==
    IF start_index = end_index
    THEN SetBytes(bitmap, start_index,
                  BitAnd((((2 * end_mask) % kByte) - 1) % kByte,
                         BitNot((start_mask - 1) % kByte)),
                  end_index,
                  BitAnd((((2 * end_mask) % kByte) - 1) % kByte,
                         BitNot((start_mask - 1) % kByte)),
                  value)
    ELSE SetBytes(bitmap, start_index, BitNot((start_mask - 1) % kByte),
                  end_index, (((2 * end_mask) % kByte) - 1) % kByte, value)

\* Pool::CalculateHeaderOverhead: the bytes of the bitmap of num_blocks
\* blocks; (num_blocks & 0xF8) keeps bits 3 to 7 of num_blocks.
CalculateHeaderOverhead(num_blocks) ==
    (num_blocks \div 8) + (IF num_blocks # ((num_blocks \div 8) % 32) * 8 THEN 1 ELSE 0)

\* Pool::MapShm: the blocks of a pool of size bytes.
MapShm(size) == (size + (kBlockSize - (size % kBlockSize))) \div kBlockSize

\* Pool::BuildNewPool: the header and the cleared bitmap of a pool of
\* num_blocks blocks.
BuildNewPool(num_blocks) ==
    [header |-> [size |-> num_blocks * kBlockSize, num_blocks |-> num_blocks],
     block_bytes |-> CalculateHeaderOverhead(num_blocks),
     block_allocation |-> [i \in 0 .. CalculateHeaderOverhead(num_blocks) - 1 |-> 0]]

\* The Segment that Allocate's locals segment and smallest_segment start as.
NoSegment ==
    [start_mask |-> 0, end_mask |-> 0, start_index |-> -1, end_index |-> -1, start_byte |-> -1]

\* The locals of Pool::Allocate before its scan.
ScanStart ==
    [in_free_segment |-> FALSE, set_segment |-> FALSE, segment_size |-> 0,
     smallest_size |-> INT_MAX, start_mask |-> 0, start_mask_shifts |-> 0,
     start_index |-> -1, segment |-> NoSegment, smallest_segment |-> NoSegment,
     saw_blocks |-> 0]

\* The inner loop's first test: an allocated block ends the free segment
\* the scan is in, which becomes the smallest if it is shorter than it.
EndSegment(s, used) ==
    IF used /\ s.in_free_segment
    THEN IF s.segment_size # 0
         THEN [s EXCEPT !.in_free_segment = FALSE,
                        !.smallest_size = IF s.segment_size < s.smallest_size
                                          THEN s.segment_size ELSE @,
                        !.smallest_segment = IF s.segment_size < s.smallest_size
                                             THEN s.segment ELSE @,
                        !.segment_size = 0,
                        !.set_segment = FALSE]
         ELSE [s EXCEPT !.in_free_segment = FALSE]
    ELSE s

\* The inner loop's second test: a free block starts or lengthens a free
\* segment.
CountBlock(s, used, i, mask, mask_shifts) ==
    IF used THEN s
    ELSE IF s.in_free_segment
         THEN [s EXCEPT !.segment_size = @ + 1]
         ELSE [s EXCEPT !.in_free_segment = TRUE,
                        !.start_mask = mask,
                        !.start_index = i,
                        !.start_mask_shifts = mask_shifts,
                        !.segment_size = @ + 1]

\* The inner loop's third test: the free segment has reached size blocks
\* and is saved as a place for the request.
SaveSegment(s, i, mask, size) ==
    IF ~s.set_segment /\ s.segment_size >= size
    THEN [s EXCEPT !.segment = [start_mask |-> s.start_mask,
                                end_mask |-> mask,
                                start_index |-> s.start_index,
                                end_index |-> i,
                                start_byte |-> (s.start_index * 8 + s.start_mask_shifts)
                                               * kBlockSize],
                   !.set_segment = TRUE]
    ELSE s

\* The body of Allocate's inner loop for bit mask_shifts of bitmap byte i,
\* for a request of size blocks.
ScanBit(s, byte, i, mask_shifts, size) ==
    [SaveSegment(CountBlock(EndSegment(s, BitAnd(byte, 2 ^ mask_shifts) # 0),
                            BitAnd(byte, 2 ^ mask_shifts) # 0, i, 2 ^ mask_shifts, mask_shifts),
                 i, 2 ^ mask_shifts, size)
        EXCEPT !.saw_blocks = @ + 1]

\* Allocate's inner loop over the bits of bitmap byte i from bit mask_shifts
\* on; it ends after bit 7, or earlier once num_blocks blocks were seen.
RECURSIVE ScanByte(_, _, _, _, _, _)
NextBit(after, byte, i, mask_shifts, size, num_blocks) ==
    IF after.saw_blocks >= num_blocks \/ mask_shifts = 7
    THEN after
    ELSE ScanByte(after, byte, i, mask_shifts + 1, size, num_blocks)

ScanByte(s, byte, i, mask_shifts, size, num_blocks) ==
    NextBit(ScanBit(s, byte, i, mask_shifts, size), byte, i, mask_shifts, size, num_blocks)

\* Allocate's outer loop from bitmap byte i on: the break of the inner loop
\* does not end it.
RECURSIVE Scan(_, _, _, _, _)
Scan(s, bitmap, i, size, num_blocks) ==
    IF i \notin DOMAIN bitmap THEN s
    ELSE Scan(ScanByte(s, bitmap[i], i, 0, size, num_blocks), bitmap, i + 1, size, num_blocks)

\* Allocate after its loops: a free segment that reaches the end of the
\* bitmap becomes the smallest if it is shorter than it.
LastSegment(s) ==
    IF s.set_segment /\ s.segment_size < s.smallest_size
    THEN [s EXCEPT !.smallest_segment = s.segment, !.smallest_size = s.segment_size]
    ELSE s

\* The end of Allocate: the smallest segment is marked and returned, or
\* nullptr is.
Occupy(bitmap, s) ==
    IF s.smallest_size # INT_MAX
    THEN [bitmap |-> SetSegment(bitmap, s.smallest_segment.start_index,
                                s.smallest_segment.start_mask,
                                s.smallest_segment.end_index,
                                s.smallest_segment.end_mask, 1),
          ok |-> TRUE, offset |-> s.smallest_segment.start_byte]
    ELSE [bitmap |-> bitmap, ok |-> FALSE, offset |-> 0]

\* The blocks Allocate needs for a request of bytes bytes.
SizeInBlocks(bytes) == (bytes \div kBlockSize) + (IF bytes % kBlockSize # 0 THEN 1 ELSE 0)

\* Pool::Allocate(bytes) on a bitmap: the bitmap it leaves and the pointer
\* it returns, as its offset from data_ (ok is FALSE for nullptr).
AllocateCall(bitmap, bytes, num_blocks) ==
    Occupy(bitmap, LastSegment(Scan(ScanStart, bitmap, 0, SizeInBlocks(bytes), num_blocks)))

\* AllocateAt's check of the bitmap bytes strictly between the first and the
\* last, eight at a time up to end_bound and then one at a time: TRUE when a
\* byte it reads is not zero.
RECURSIVE MiddleInUse(_, _, _, _, _, _)
MiddleInUse(bitmap, start_index, checking_index, end_bound, end_index, outside) ==
    IF checking_index < end_bound
    THEN \/ \E b \in 0 .. 7 :
               LoadByte(bitmap, start_index + checking_index + b, outside) # 0
         \/ MiddleInUse(bitmap, start_index, checking_index + 8, end_bound, end_index, outside)
    ELSE IF checking_index < end_index
         THEN \/ LoadByte(bitmap, checking_index, outside) # 0
              \/ MiddleInUse(bitmap, start_index, checking_index + 1, end_bound, end_index, outside)
         ELSE FALSE

\* Pool::AllocateAt once DefineSegment has located the segment seg.
PlaceSegment(bitmap, start_byte, seg, outside) ==
    IF \/ BitAnd(LoadByte(bitmap, seg.start_index, outside),
                 BitNot((seg.start_mask - 1) % kByte)) # 0
       \/ BitAnd(LoadByte(bitmap, seg.end_index, outside),
                 (2 * seg.end_mask - 1) % kByte) # 0
       \/ MiddleInUse(bitmap, seg.start_index, seg.start_index + 1,
                      seg.end_index - (seg.end_index % 8), seg.end_index, outside)
    THEN [bitmap |-> bitmap, ok |-> FALSE, offset |-> 0]
    ELSE [bitmap |-> SetSegment(bitmap, seg.start_index, seg.start_mask,
                                seg.end_index, seg.end_mask, 1),
          ok |-> TRUE, offset |-> start_byte]

\* Pool::AllocateAt(start_byte, size) on a bitmap.
AllocateAtCall(bitmap, start_byte, size, outside) ==
    PlaceSegment(bitmap, start_byte, DefineSegment(start_byte, size), outside)

\* Pool::Free(block, size) once DefineSegment has located the segment seg.
ClearSegment(bitmap, seg) ==
    SetSegment(bitmap, seg.start_index, seg.start_mask, seg.end_index, seg.end_mask, 0)

\* Pool::Free(block, size) on a bitmap, block being data_ + offset.
FreeCall(bitmap, offset, size) == ClearSegment(bitmap, DefineSegment(offset, size))

\* The sizes, in bytes, of the pools that are tried.
PoolSizes == {kBlockSize * n - 1 : n \in MinPoolBlocks .. MaxPoolBlocks}

\* The sizes, in bytes, that callers ask for: one byte more than 0, 1, ...
\* whole blocks.
RequestSizes == {kBlockSize * (n - 1) + 1 : n \in 1 .. MaxRequestBlocks}

\* The sizes, in bytes, that AllocateAt is called with.
PlacementSizes == {kBlockSize * (n - 1) + 1 : n \in 1 .. MaxPlacementBlocks}

\* The history of a pool no call has been made on.
NoResult ==
    [op |-> "none", calls |-> 0, start_byte |-> 0, size |-> 0, ok |-> FALSE, offset |-> 0,
     before |-> <<>>, trip |-> FALSE, origin |-> <<>>,
     again |-> [valid |-> FALSE, offset |-> 0]]

\* No Allocate is scanning the bitmap.
NoScan == [active |-> FALSE, i |-> 0, bytes |-> 0, s |-> ScanStart]

\* A pool built by Pool(size) in fresh shared memory.
PoolInit ==
    /\ \E size \in PoolSizes :
          /\ header = BuildNewPool(MapShm(size)).header
          /\ block_bytes = BuildNewPool(MapShm(size)).block_bytes
          /\ block_allocation = BuildNewPool(MapShm(size)).block_allocation
    /\ scan = NoScan
    /\ allocations = {}
    /\ result = NoResult
    /\ UnusedRing
    /\ UnusedMutex
    /\ UnusedQueue
    /\ UnusedMap
    /\ UnusedShm

PoolFrame ==
    UNCHANGED <<header, block_bytes>> /\ UNCHANGED ringVars /\ UNCHANGED mutexVars
    /\ UNCHANGED queueVars /\ UNCHANGED mapVars /\ UNCHANGED shmVars

\* The return of Allocate or AllocateAt with r, the bitmap it leaves and
\* the pointer it returns.
PoolReturn(op, r, start_byte, size) ==
    /\ block_allocation' = r.bitmap
    /\ allocations' = IF r.ok THEN allocations \cup {[offset |-> r.offset, size |-> size]}
                      ELSE allocations
    /\ result' = [op |-> op, calls |-> result.calls + 1,
                  start_byte |-> start_byte, size |-> size,
                  ok |-> r.ok, offset |-> r.offset,
                  before |-> block_allocation, trip |-> FALSE,
                  origin |-> block_allocation,
                  again |-> [valid |-> /\ op = "Allocate" /\ result.op = "Free"
                                       /\ result.trip /\ result.size = size,
                             offset |-> result.offset]]
    /\ PoolFrame

\* A call of Pool::Allocate(bytes).
Allocate(bytes) ==
    /\ result.calls < MaxCalls
    /\ PoolReturn("Allocate", AllocateCall(block_allocation, bytes, header.num_blocks),
                  0, bytes)
    /\ UNCHANGED scan

\* A call of Pool::AllocateAt(start_byte, size) that fits in the pool.
AllocateAt(start_byte, size) ==
    /\ result.calls < MaxCalls
    /\ start_byte + size <= header.size
    /\ \E outside \in {0, kByte - 1} :
          PoolReturn("AllocateAt", AllocateAtCall(block_allocation, start_byte, size, outside),
                 start_byte, size)
    /\ UNCHANGED scan

\* A call of Pool::Free on a pointer that Allocate or AllocateAt returned,
\* with the size it was asked for.
Free(a) ==
    /\ result.calls < MaxCalls
    /\ a \in allocations
    /\ block_allocation' = FreeCall(block_allocation, a.offset, a.size)
    /\ allocations' = allocations \ {a}
    /\ result' = [op |-> "Free", calls |-> result.calls + 1,
                  start_byte |-> 0, size |-> a.size,
                  ok |-> TRUE, offset |-> a.offset,
                  before |-> block_allocation,
                  trip |-> /\ result.op = "Allocate" /\ result.ok
                           /\ result.offset = a.offset /\ result.size = a.size,
                  origin |-> IF /\ result.op = "Allocate" /\ result.ok
                                /\ result.offset = a.offset /\ result.size = a.size
                             THEN result.before ELSE block_allocation,
                  again |-> [valid |-> FALSE, offset |-> 0]]
    /\ PoolFrame
    /\ UNCHANGED scan

\* The offsets AllocateAt is called with: the first and the second byte of
\* every block.
PlacementOffsets == {kBlockSize * b + d : b \in 0 .. MaxPoolBlocks - 1, d \in {0, 1}}

PoolNext ==
    \/ \E bytes \in RequestSizes : Allocate(bytes)
    \/ \E start_byte \in PlacementOffsets : \E size \in PlacementSizes : AllocateAt(start_byte, size)
    \/ \E a \in allocations : Free(a)

SpecPool == PoolInit /\ [][PoolNext]_vars

\* Whether the bitmap marks a block allocated; it has no bit for a block
\* that lies before or after it.
IsSet(bitmap, block) ==
    /\ (block \div 8) \in DOMAIN bitmap
    /\ (bitmap[block \div 8] \div (2 ^ (block % 8))) % 2 = 1

\* The blocks that hold the bytes offset .. offset + size - 1 of the data.
Covered(offset, size) == (offset \div kBlockSize) .. ((offset + size - 1) \div kBlockSize)

\* ceil(bytes / kBlockSize)
BlocksFor(bytes) == (bytes + kBlockSize - 1) \div kBlockSize

\* The blocks of the data area.
DataBlocks == 0 .. header.num_blocks - 1

\* The maximal runs of free blocks of the data area in a bitmap.
FreeRuns(bitmap) ==
    {r \in [start : DataBlocks, len : 1 .. header.num_blocks] :
        /\ r.start + r.len - 1 \in DataBlocks
        /\ \A b \in r.start .. r.start + r.len - 1 : ~IsSet(bitmap, b)
        /\ (r.start - 1 \in DataBlocks => IsSet(bitmap, r.start - 1))
        /\ (r.start + r.len \in DataBlocks => IsSet(bitmap, r.start + r.len))}

\* The maximal free runs that can hold n blocks.
Adequate(bitmap, n) == {r \in FreeRuns(bitmap) : r.len >= n}

\* The bitmap with the bits of a set of blocks set and no other bit changed.
WithSet(bitmap, blocks) ==
    [i \in DOMAIN bitmap |->
        BitOr(bitmap[i], (IF 8 * i \in blocks THEN 1 ELSE 0)
                         + (IF 8 * i + 1 \in blocks THEN 2 ELSE 0)
                         + (IF 8 * i + 2 \in blocks THEN 4 ELSE 0)
                         + (IF 8 * i + 3 \in blocks THEN 8 ELSE 0)
                         + (IF 8 * i + 4 \in blocks THEN 16 ELSE 0)
                         + (IF 8 * i + 5 \in blocks THEN 32 ELSE 0)
                         + (IF 8 * i + 6 \in blocks THEN 64 ELSE 0)
                         + (IF 8 * i + 7 \in blocks THEN 128 ELSE 0))]

\* C13: pool non-overlap -- whatever Allocate, AllocateAt and Free calls
\* were made, every Free naming a live allocation with its size, the block
\* ranges of any two live allocations are disjoint and every block of a
\* live allocation has its bitmap bit set.
C13_NonOverlap ==
    /\ \A a, b \in allocations :
          a # b => Covered(a.offset, a.size) \cap Covered(b.offset, b.size) = {}
    /\ \A a \in allocations :
          \A block \in Covered(a.offset, a.size) : IsSet(block_allocation, block)

\* C14: Allocate(bytes) returns null, or the start of a run of
\* ceil(bytes / 128) blocks that were all free before the call and lie
\* inside the data area; a free run too short for the request does not keep
\* the request out of an adequate run behind it.
C14_AllocateFreeRun ==
    result.op = "Allocate" =>
        /\ result.ok =>
              /\ result.offset % kBlockSize = 0
              /\ \A block \in Covered(result.offset, BlocksFor(result.size) * kBlockSize) :
                    block \in DataBlocks /\ ~IsSet(result.before, block)
        /\ Adequate(result.before, BlocksFor(result.size)) # {} => result.ok

\* C15: best fit -- when some maximal free run holds the request, Allocate
\* places it at the start of a shortest such run, the lowest-addressed of
\* the shortest, and sets exactly the first ceil(bytes / 128) bits of it.
C15_BestFit ==
    (result.op = "Allocate" /\ Adequate(result.before, BlocksFor(result.size)) # {}) =>
        \E best \in Adequate(result.before, BlocksFor(result.size)) :
            /\ \A r \in Adequate(result.before, BlocksFor(result.size)) :
                  best.len < r.len \/ (best.len = r.len /\ best.start <= r.start)
            /\ result.ok
            /\ result.offset = best.start * kBlockSize
            /\ block_allocation =
                  WithSet(result.before, best.start .. best.start + BlocksFor(result.size) - 1)

\* C16: pool round trip -- Free(returned block, n) right after an
\* Allocate(n) that succeeded leaves the bitmap as it was before the
\* Allocate, and the next Allocate(n) returns the same address.
C16_RoundTrip ==
    /\ (result.op = "Free" /\ result.trip) => block_allocation = result.origin
    /\ (result.op = "Allocate" /\ result.again.valid) =>
          (result.ok /\ result.offset = result.again.offset)

\* C17: AllocateAt(start_byte, size) returns start_byte exactly when every
\* block that covers the span is free, whatever the other blocks of the
\* same bitmap bytes are; when it does it sets exactly the covered bits,
\* and when it returns null it leaves the bitmap unchanged.
C17_AllocateAt ==
    result.op = "AllocateAt" =>
        /\ result.ok <=> \A block \in Covered(result.start_byte, result.size) :
                             ~IsSet(result.before, block)
        /\ result.ok =>
              /\ result.offset = result.start_byte
              /\ block_allocation =
                    WithSet(result.before, Covered(result.start_byte, result.size))
        /\ ~result.ok => block_allocation = result.before

\* The pool of the tests, and the block count of a pool whose bitmap gets a
\* byte more than its blocks fill.
kPoolSize == 64000
WholeBytePoolBlocks == 256

\* The sizes of the pools that are filled up.
ExhaustSizes == {kPoolSize, kBlockSize * WholeBytePoolBlocks - 1}

\* sizeof(int), what AllocateForType<int> asks for.
kIntSize == 4

\* An empty pool that is about to be filled one block at a time.
ExhaustInit ==
    /\ \E size \in ExhaustSizes :
          /\ header = BuildNewPool(MapShm(size)).header
          /\ block_bytes = CalculateHeaderOverhead(MapShm(size))
          /\ block_allocation = BuildNewPool(MapShm(size)).block_allocation
    /\ scan = NoScan
    /\ allocations = {}
    /\ result = NoResult
    /\ UnusedRing
    /\ UnusedMutex
    /\ UnusedQueue
    /\ UnusedMap
    /\ UnusedShm

\* OverusedPoolTest: one more AllocateForType<int>() as long as none has
\* returned nullptr.  The call enters Pool::Allocate.
AllocateForType ==
    /\ ~scan.active
    /\ result.op = "none" \/ result.ok
    /\ scan' = [active |-> TRUE, i |-> 0, bytes |-> kIntSize, s |-> ScanStart]
    /\ UNCHANGED <<block_allocation, allocations, result>>
    /\ PoolFrame

\* One turn of the outer loop of the running Allocate: the inner loop over
\* bitmap byte scan.i.
AllocateScanByte ==
    /\ scan.active
    /\ scan.i < block_bytes
    /\ scan' = [scan EXCEPT !.i = @ + 1,
                            !.s = ScanByte(scan.s, block_allocation[scan.i], scan.i, 0,
                                           SizeInBlocks(scan.bytes), header.num_blocks)]
    /\ UNCHANGED <<block_allocation, allocations, result>>
    /\ PoolFrame

\* The running Allocate leaves its loops, marks the segment and returns.
AllocateReturn ==
    /\ scan.active
    /\ scan.i >= block_bytes
    /\ PoolReturn("Allocate", Occupy(block_allocation, LastSegment(scan.s)), 0, scan.bytes)
    /\ scan' = NoScan

ExhaustNext ==
    \/ AllocateForType
    \/ AllocateScanByte
    \/ AllocateReturn

SpecPoolExhaust == ExhaustInit /\ [][ExhaustNext]_vars

\* C18: pool exhaustion -- from an empty pool exactly num_blocks
\* single-block Allocate calls succeed and the next one returns null, and
\* no call hands out a block whose index is num_blocks or more, whatever
\* the rounding of the bitmap to whole bytes.
C18_Exhaustion ==
    /\ \A a \in allocations : \A block \in Covered(a.offset, a.size) : block \in DataBlocks
    /\ (result.op = "Allocate" /\ result.ok) => result.calls <= header.num_blocks
    /\ (result.op = "Allocate" /\ ~result.ok) => result.calls = header.num_blocks + 1

(* ---------------------------- the hashmap ----------------------------- *)

\* num_buckets of the map that is tried.
NumBuckets == 2
\* The keys are 0 .. MaxKey, one more key than there are buckets; key k of a
\* string map is the string "duck" + to_string(k).
MaxKey == 2
\* The values are 0 .. MaxValue.
MaxValue == 1
\* The AddOrSet calls that are made on one map.
MaxAdds == 3

Keys == 0 .. MaxKey

Values == 0 .. MaxValue

\* What memory that was never written holds when it is none of the keys,
\* values or strings above; also what the caller's *value holds before Fetch.
Garbage == -1

\* nullptr in Bucket::next.
NullBucket == -1

\* history: the key was never passed to AddOrSet.
NotInserted == -2

\* The pool offset that bucket i's key holds before it is written, in a
\* string map: some offset that no key of the map was copied to.
StaleOffset(i) == -(i + 2)

\* StringSpecific::HashKey: std::hash of the int, or of the string's
\* characters, taken as the identity on the key's number.
HashKey(key) == key

\* CompareKeys without its specialization for strings: the bucket's offset
\* is compared with the key.
CompareKeys_Pointers(bucket_key, user_key) == bucket_key = user_key

\* StringSpecific::CompareKeys: a string map's bucket holds the offset of
\* its key's copy in the pool and the strings are compared; any other map's
\* bucket holds the key.
CompareKeys(bucket_key, user_key) ==
    IF key_type = "string"
    THEN shared_keys[bucket_key] = user_key
    ELSE bucket_key = user_key

\* The offset of the block Pool::Allocate gives the next copy of a key.
NextOffset == Cardinality({o \in DOMAIN shared_keys : o >= 0})

\* StringSpecific::ConvertKey: what AddOrSet stores in the bucket, the
\* offset of a new copy of the string or the key itself.
ConvertKey(key) == IF key_type = "string" THEN NextOffset ELSE key

\* The pool's strings after ConvertKey(key).
CopyKey(key) ==
    IF key_type = "string"
    THEN [o \in DOMAIN shared_keys \cup {NextOffset} |->
             IF o = NextOffset THEN key ELSE shared_keys[o]]
    ELSE shared_keys

\* The loop of FindBucket from bucket on, end_bucket being the last
\* occupied bucket it has passed.
RECURSIVE WalkChain(_, _, _)
WalkChain(bucket, end_bucket, key) ==
    IF bucket = NullBucket THEN end_bucket
    ELSE IF data[bucket].occupied
         THEN IF CompareKeys(data[bucket].key, key) THEN bucket
              ELSE WalkChain(data[bucket].next, bucket, key)
         ELSE bucket

\* SharedHashmapInt::FindBucket
FindBucket(key) == WalkChain(HashKey(key) % NumBuckets, NullBucket, key)

\* The bucket AllocateForType<Bucket>() returns.
NewBucket == Cardinality(DOMAIN data)

\* The map the constructor leaves: it writes next and occupied of every
\* bucket of the array and leaves key and value as the memory held them.
MapCreated ==
    /\ key_type \in {"string", "int"}
    /\ \E keys \in [0 .. NumBuckets - 1 -> Keys \cup {Garbage}] :
       \E values \in [0 .. NumBuckets - 1 -> Values \cup {Garbage}] :
          /\ data = [i \in 0 .. NumBuckets - 1 |->
                        [key |-> IF key_type = "string" THEN StaleOffset(i) ELSE keys[i],
                         value |-> values[i], next |-> NullBucket, occupied |-> FALSE]]
          /\ shared_keys = IF key_type = "string"
                           THEN [o \in {StaleOffset(i) : i \in 0 .. NumBuckets - 1} |->
                                    keys[-o - 2]]
                           ELSE <<>>
    /\ latest = [k \in Keys |-> NotInserted]
    /\ fetched = [op |-> "none", adds |-> 0, key |-> 0, found |-> FALSE, value |-> Garbage]
    /\ opened = [k \in Keys |-> NotInserted]

\* The map of a run in which nothing else is followed.
MapInit ==
    MapCreated /\ UnusedRing /\ UnusedMutex /\ UnusedQueue /\ UnusedPool /\ UnusedShm

MapFrame ==
    UNCHANGED key_type /\ UNCHANGED ringVars /\ UNCHANGED mutexVars /\ UNCHANGED queueVars
    /\ UNCHANGED poolVars /\ UNCHANGED shmVars

\* AddOrSet's stores into bucket, which is the bucket FindBucket returned or
\* the new bucket chained to it.
SetBucket(found, bucket, key, value) ==
    /\ data' = [i \in DOMAIN data \cup {bucket} |->
                   IF i = bucket
                   THEN [key |-> ConvertKey(key), value |-> value,
                         next |-> IF bucket \in DOMAIN data THEN data[bucket].next
                                  ELSE NullBucket,
                         occupied |-> TRUE]
                   ELSE IF i = found /\ found # bucket
                        THEN [data[i] EXCEPT !.next = bucket]
                        ELSE data[i]]
    /\ shared_keys' = CopyKey(key)

\* SharedHashmapInt::AddOrSet(key, value)
AddOrSet(key, value) ==
    /\ fetched.adds < MaxAdds
    /\ SetBucket(FindBucket(key),
                 IF /\ data[FindBucket(key)].occupied
                    /\ ~CompareKeys(data[FindBucket(key)].key, key)
                 THEN NewBucket ELSE FindBucket(key),
                 key, value)
    /\ latest' = [latest EXCEPT ![key] = value]
    /\ fetched' = [op |-> "AddOrSet", adds |-> fetched.adds + 1, key |-> key,
                   found |-> FALSE, value |-> Garbage]
    /\ UNCHANGED opened
    /\ MapFrame

\* SharedHashmapInt::Fetch(key, value) with *value holding Garbage at the
\* call: found is what it returns and value is what *value holds after it.
Fetch(key) ==
    /\ fetched' = [op |-> "Fetch", adds |-> fetched.adds, key |-> key,
                   found |-> CompareKeys(data[FindBucket(key)].key, key),
                   value |-> IF CompareKeys(data[FindBucket(key)].key, key)
                             THEN data[FindBucket(key)].value ELSE Garbage]
    /\ UNCHANGED <<data, shared_keys, latest, opened>>
    /\ MapFrame

MapNext ==
    \/ \E key \in Keys : \E value \in Values : AddOrSet(key, value)
    \/ \E key \in Keys : Fetch(key)

SpecMap == MapInit /\ [][MapNext]_vars

\* C19: SharedHashmap lookup -- Fetch(k) of a key that was inserted returns
\* true and the value of the most recent AddOrSet(k, v), also when the key
\* is stored in the overflow chain of its bucket.
C19_Lookup ==
    (fetched.op = "Fetch" /\ latest[fetched.key] # NotInserted) =>
        (fetched.found /\ fetched.value = latest[fetched.key])

\* A Fetch found a key that is stored in an overflow bucket, with the value
\* of a second AddOrSet of that key.
C19_Witness ==
    /\ fetched.op = "Fetch" /\ fetched.found /\ fetched.adds = MaxAdds
    /\ FindBucket(fetched.key) >= NumBuckets
    /\ fetched.value = latest[fetched.key]
    /\ data[FindBucket(fetched.key)].next = NullBucket
    /\ Cardinality(DOMAIN data) = NumBuckets + 1

\* C20: SharedHashmap miss -- Fetch(k) of a key that was never passed to
\* AddOrSet returns false and does not write *value, in a string map and
\* in a map of trivially copyable keys, also when k hashes to a bucket that
\* was never occupied.
C20_Miss ==
    (fetched.op = "Fetch" /\ latest[fetched.key] = NotInserted) =>
        (~fetched.found /\ fetched.value = Garbage)

(* ------------------------- queues by name ----------------------------- *)

\* queue_names_ as its constructor leaves it, a map from const char * to
\* int, and no name fetched.
FetchInit == MapInit /\ key_type = "string"

\* The offset of the header Queue::Create allocates: the queues are put in
\* the pool one behind the other.
NewQueue == fetched.adds

\* Queue::DoFetchQueue(name, consumer, size): the handle is loaded from the
\* offset queue_names_.Fetch stores, or a queue is created and its offset
\* saved with AddOrSet; fetched.value is the offset of the handle returned.
FetchQueue(name) ==
    LET bucket == FindBucket(name)
        hit == CompareKeys(data[bucket].key, name)
        offset == IF hit THEN data[bucket].value ELSE NewQueue
    IN  /\ IF hit
           THEN UNCHANGED <<data, shared_keys, latest>>
           ELSE /\ SetBucket(bucket,
                             IF data[bucket].occupied THEN NewBucket ELSE bucket,
                             name, offset)
                /\ latest' = [latest EXCEPT ![name] = offset]
        /\ fetched' = [op |-> "FetchQueue",
                       adds |-> IF hit THEN fetched.adds ELSE fetched.adds + 1,
                       key |-> name, found |-> hit, value |-> offset]
        /\ opened' = IF opened[name] = NotInserted
                     THEN [opened EXCEPT ![name] = offset] ELSE opened
        /\ MapFrame

FetchNext == \E name \in Keys : FetchQueue(name)

SpecFetch == FetchInit /\ [][FetchNext]_vars

(* --------------------- claims about Queue handles --------------------- *)

\* The indices at which a handle has cached a ring.
CachedIndices(h) == {i \in Descriptors : h.subqueues[i] # NoRing}

\* C22: a handle whose last_num_subqueues_ is 0 after
\* IncorporateNewSubqueues has no ring cached, and its Enqueue or
\* EnqueueBlocking returns false having called nothing on any ring;
\* EnqueueBlocking returns false in that case only, and true after one
\* MpscQueue::EnqueueBlocking on every ring the handle has cached.
C22_NoConsumers ==
    \A t \in DOMAIN qpc :
        /\ qpc[t] \in {"IncDone", "QRet"} =>
               handle[t].last_num_subqueues = Cardinality(CachedIndices(handle[t]))
        /\ (qpc[t] = "QRet" /\ handle[t].last_num_subqueues = 0) =>
               (~qloc[t].ret /\ call[t] = NoCall /\ pc[t] = "Idle")
        /\ (qpc[t] = "QRet" /\ qloc[t].op = "EnqueueBlocking") =>
               /\ qloc[t].ret <=> handle[t].last_num_subqueues # 0
               /\ qloc[t].ret =>
                      \A r \in RingIds :
                          call[t].delta[r] = IF r \in CachedRings(handle[t]) THEN 1 ELSE 0

\* C22 witness: EnqueueBlocking returns false on a handle that has removed
\* the ring of a consumer that is gone.
C22_Witness ==
    \E t \in DOMAIN qpc :
        /\ qpc[t] = "QRet" /\ qloc[t].op = "EnqueueBlocking" /\ ~qloc[t].ret
        /\ handle[t].last_subqueue_updates = 2
        /\ sent[t] = 1

\* The three states of a subqueue descriptor.
IsFree(d) == d.dead = 1 /\ d.valid = 0 /\ d.num_references = 0

IsLive(d) == d.dead = 0 /\ d.valid = 1 /\ d.num_references >= 1

IsDying(d) == d.dead = 0 /\ d.valid = 0 /\ d.num_references >= 1

\* The threads that are between two stores to descriptor i: in
\* MakeOwnSubqueue after the CompareExchange of dead and before the store of
\* num_references, or in RemoveSubqueue after the decrement to 0 and before
\* the store of dead.
Claiming(i) ==
    {t \in DOMAIN qpc : qpc[t] \in {"MoCreate", "MoOffset", "MoRefs", "RemFree", "RemDead"}
                        /\ qloc[t].i = i}

\* The handles that have the ring of descriptor i cached.
Caching(i) == {t \in DOMAIN handle : handle[t].live /\ handle[t].subqueues[i] # NoRing}

LiveDescriptors == {i \in Descriptors : queue.queue_offsets[i].valid = 1}

\* The threads in MakeOwnSubqueue that have stored valid = 1 and not yet run
\* Increment(&num_subqueues), and the threads in ~Queue that have stored
\* valid = 0 and not yet run Decrement(&num_subqueues).
Announcing == {t \in DOMAIN qpc : qpc[t] \in {"MoUpdates", "MoNum"}}

Retiring == {t \in DOMAIN qpc : qpc[t] = "DtNum"}

\* C24 as stated: num_subqueues is the number of LIVE descriptors in every
\* state.
C24_CountsLive == queue.num_subqueues = Cardinality(LiveDescriptors)

\* C24: num_subqueues equals the number of descriptors with valid = 1, less
\* one for every handle between the Exchange of valid and the Increment in
\* MakeOwnSubqueue, plus one for every handle between the Exchange of valid
\* and the Decrement in ~Queue; with no handle inside either, the two are
\* equal.
C24_NumSubqueues ==
    queue.num_subqueues =
        Cardinality(LiveDescriptors) - Cardinality(Announcing) + Cardinality(Retiring)

\* C24 witness: a consumer handle has been destroyed and the next one has
\* made its descriptor valid without having counted it yet.
C24_Witness ==
    /\ Announcing # {} /\ Cardinality(LiveDescriptors) = 1
    /\ queue.num_subqueues = 0 /\ queue.subqueue_updates >= 2

\* The consumer handles thread t has constructed whose MakeOwnSubqueue has
\* run Increment(&subqueue_updates), and the ones it has deleted whose ~Queue
\* has run it.
Announced(t) ==
    handle[t].built
        - (IF qpc[t] \in {"MoScan", "MoCreate", "MoOffset", "MoRefs", "MoValid", "MoUpdates"}
           THEN 1 ELSE 0)

Retired(t) ==
    IF ~handle[t].live THEN handle[t].built
    ELSE IF qloc[t].op = "~Queue" /\ qpc[t] \notin {"DtNum", "DtUpdates"}
         THEN handle[t].built
         ELSE handle[t].built - 1

RECURSIVE SumOver(_, _)
SumOver(F(_), set) ==
    IF set = {} THEN 0
    ELSE LET t == CHOOSE u \in set : TRUE IN F(t) + SumOver(F, set \ {t})

\* C25 as stated, for the change from DYING to FREE: the store of dead = 1
\* comes with an increase of subqueue_updates, in that step or earlier in the
\* call that makes it.
C25_EveryChangeCounted ==
    [][\A i \in Descriptors :
          (queue.queue_offsets[i].dead = 0 /\ queue'.queue_offsets[i].dead = 1) =>
              \/ queue'.subqueue_updates > queue.subqueue_updates
              \/ \E t \in DOMAIN qpc : qloc[t].i = i /\ qloc[t].op = "~Queue"]_vars

\* C25: subqueue_updates never decreases and is incremented once by every
\* MakeOwnSubqueue, after it has made its descriptor valid, and once by every
\* ~Queue of a consumer handle, after it has made its descriptor invalid;
\* the RemoveSubqueue that marks a descriptor dead again leaves it as it is.
C25_Updates ==
    /\ [](queue.subqueue_updates =
              SumOver(Announced, {t \in DOMAIN handle : Reads(handle[t])})
            + SumOver(Retired, {t \in DOMAIN handle : Reads(handle[t])}))
    /\ [][queue'.subqueue_updates >= queue.subqueue_updates]_vars

\* C25 witness: a producer handle's RemoveSubqueue has marked dead the
\* descriptor of a consumer handle that was deleted, and subqueue_updates
\* counts the creation and the deletion.
C25_Witness ==
    /\ queue.subqueue_updates = 2
    /\ \A i \in Descriptors : queue.queue_offsets[i].dead = 1
    /\ \E t \in DOMAIN qpc : qloc[t].op = "Enqueue" /\ qloc[t].after = "Inc"
                             /\ qpc[t] \in {"IncScan", "IncDone"}

\* The threads whose RemoveSubqueue has taken num_references of descriptor i
\* to 0 and has not yet reset its subqueues_[i].
Freeing(i) == {t \in DOMAIN qpc : qpc[t] \in {"RemFree", "RemDead"} /\ qloc[t].i = i}

\* The threads whose AddSubqueue has incremented num_references of
\* descriptor i and has not yet loaded the ring.
Adding(i) == {t \in DOMAIN qpc : qpc[t] = "AddLoad" /\ qloc[t].i = i}

\* The consumer handles that own descriptor i and have not started ~Queue.
Owners(i) ==
    {t \in DOMAIN handle : /\ handle[t].live /\ handle[t].my_subqueue_index = i
                           /\ qloc[t].op # "~Queue"}

\* C26: the ring of a descriptor is given back to the pool only by the
\* RemoveSubqueue that took num_references from 1 to 0, while it is still
\* allocated and no other handle has it cached; num_references counts the
\* handles that hold the ring; every ring a handle has cached, and every
\* ring a Reserve, EnqueueAt, EnqueueBlocking, CancelReservation or
\* DequeueNext is running on, is allocated; and valid is 1 only while the
\* consumer handle that owns the descriptor has not started its destructor.
C26_RingLifetime ==
    /\ \A t \in DOMAIN qpc :
           qpc[t] = "RemFree" =>
               /\ handle[t].subqueues[qloc[t].i] \in pool
               /\ queue.queue_offsets[qloc[t].i].num_references = 0
               /\ Caching(qloc[t].i) = {t}
               /\ Adding(qloc[t].i) = {}
    /\ \A i \in Descriptors :
           (queue.queue_offsets[i].dead = 0 /\
            ~\E t \in DOMAIN qpc : qpc[t] \in {"MoCreate", "MoOffset", "MoRefs"} /\ qloc[t].i = i)
               => queue.queue_offsets[i].num_references =
                      Cardinality(Caching(i) \ Freeing(i)) + Cardinality(Adding(i))
    /\ \A t \in DOMAIN handle : \A i \in Descriptors :
           (handle[t].live /\ handle[t].subqueues[i] # NoRing) =>
               \/ handle[t].subqueues[i] \in pool
               \/ qpc[t] = "RemDead" /\ qloc[t].i = i
    /\ \A t \in DOMAIN pc : pc[t] # "Idle" => loc[t].ring \in pool
    /\ \A i \in Descriptors : queue.queue_offsets[i].valid = 1 => Owners(i) # {}

\* C26 witness: the consumer handle is gone, and the producer handle that
\* still had its ring cached is the one that gives the ring back.
C26_Witness ==
    \E t \in DOMAIN qpc :
        /\ qpc[t] = "RemFree" /\ qloc[t].after = "Inc"
        /\ handle[t].subqueues[qloc[t].i] \in pool
        /\ \A u \in DOMAIN handle : Reads(handle[u]) => ~handle[u].live

(* ---------------------- further claims about the ring ----------------- *)

\* The producers that have incremented write_length of ring r and have
\* neither committed their node nor decremented again: a reservation that
\* succeeded, a Reserve that is about to fail, an EnqueueBlocking that is
\* waiting for its node or writing it.
Uncommitted(r) ==
    {t \in DOMAIN pc : /\ loc[t].ring = r
                       /\ pc[t] \in {"ReserveFull", "ClaimHead", "WrapHead", "TakeTicket",
                                     "WbRead", "WbWait", "WbSleep", "Copy", "Publish"}}

\* The consumer calls that have taken a node of ring r, valid being 0
\* again, and have not yet decremented write_length.
Dequeuing(r) ==
    {t \in DOMAIN pc : /\ loc[t].ring = r
                       /\ pc[t] \in {"DqRead", "DqWoken", "DqDecr", "DqbXadd"}}

\* C27: for the ring, in every reachable state, write_length less the
\* number of nodes with valid == 1 is at least 0 and at most the number of
\* calls in progress that account for a difference: the producers that
\* have incremented write_length and not yet committed or given back, and
\* the dequeue that has emptied its node and not yet decremented.
C27_WriteLength ==
    \A r \in DOMAIN rings :
        LET excess == rings[r].write_length - Cardinality(Filled(r))
        IN  0 <= excess /\ excess <= Cardinality(Uncommitted(r)) + Cardinality(Dequeuing(r))

\* The number of writes and of dequeues a node has seen when the run
\* starts: none, or as many as bring its two 16-bit counters, which are
\* equal on an empty ring, to the point where bit 15 is about to be set or
\* cleared.
WrapStarts == {0, kBit15 - 1, kHalfWord - 1}

\* A ring of one node that has been written and emptied n times,
\* n in WrapStarts, and the handles of the threads that share it.
RingWrapInit ==
    /\ \E n \in WrapStarts :
          rings = [r \in {0} |-> [DoCreate(1) EXCEPT !.write_waiters[0] = Word(n, n)]]
    /\ tail_index = [t \in {Consumer} \cup Producers |-> 0]
    /\ pc = [t \in {Consumer} \cup Producers |-> "Idle"]
    /\ loc = [t \in {Consumer} \cup Producers |-> NoLoc]
    /\ sent = [t \in Producers |-> 0]
    /\ deq = [t \in {Consumer} |-> <<>>]
    /\ claims = [r \in {0} |-> <<>>]
    /\ accepted = {}
    /\ solo = [t \in {Consumer} \cup Producers |-> -1]
    /\ UnusedMutex
    /\ UnusedPool
    /\ UnusedMap
    /\ UnusedShm
    /\ UnusedQueue

\* Producers call EnqueueBlocking and the consumer calls DequeueNextBlocking.
RingWrapNext ==
    \/ \E t \in DOMAIN pc : CallEnqueueBlocking(t)
    \/ \E t \in DOMAIN pc : CallDequeueNextBlocking(t)
    \* The steps of EnqueueBlocking.
    \/ \E t \in DOMAIN pc : BlockingIncrement(t)
    \/ \E t \in DOMAIN pc : ClaimHead(t)
    \/ \E t \in DOMAIN pc : WrapHead(t)
    \/ \E t \in DOMAIN pc : TakeTicket(t)
    \/ \E t \in DOMAIN pc : WbRead(t)
    \/ \E t \in DOMAIN pc : WbFutexWait(t)
    \/ \E t \in DOMAIN pc : CopyItem(t)
    \/ \E t \in DOMAIN pc : Publish(t)
    \/ \E t \in DOMAIN pc : WakeReader(t)
    \* The steps of DequeueNextBlocking.
    \/ \E t \in DOMAIN pc : DqbCompareExchange(t)
    \/ \E t \in DOMAIN pc : DqbAnnounce(t)
    \/ \E t \in DOMAIN pc : DqbLoop(t)
    \/ \E t \in DOMAIN pc : DqbFutexWait(t)
    \/ \E t \in DOMAIN pc : DqbClear(t)
    \/ \E t \in DOMAIN pc : DqRead(t)
    \/ \E t \in DOMAIN pc : DqIncrementWoken(t)
    \/ \E t \in DOMAIN pc : DqbExchangeAdd(t)
    \/ \E t \in DOMAIN pc : DqbWakeWriters(t)
    \/ \E t \in DOMAIN pc : Return(t)

SpecRingWrap == RingWrapInit /\ [][RingWrapNext]_vars

\* The dequeues of node 0 that have run IncrementWord on the woken counter.
WokenDone ==
    Len(deq[Consumer]) + (IF pc[Consumer] \in {"DqbXadd", "DqbWake", "Ret"} THEN 1 ELSE 0)

\* How many tickets of node 0 were taken in this run before the ticket of
\* producer t: the distance, modulo 2^16, from the counter at the start of
\* the run, which is the woken counter less the dequeues done.
TicketsBefore(t) ==
    (loc[t].my_wait_number - (rings[0].write_waiters[0].woken - WokenDone) + 2 * kHalfWord)
        % kHalfWord

\* C28: a producer in EnqueueBlocking that has passed DoWriteBlocking with
\* ticket T, and is copying or committing its item, finds that the consumer
\* has dequeued the items of all holders of earlier tickets of the node,
\* also when the counters pass 2^15 and 2^16.
C28_DeliCounter ==
    \A t \in Producers :
        (pc[t] \in {"Copy", "Publish"} /\ loc[t].op = "EnqueueBlocking") =>
            WokenDone >= TicketsBefore(t)

\* The producers in EnqueueBlocking that hold a ticket of node 0 and have
\* not returned from the call.
TicketHolders ==
    {t \in Producers : /\ loc[t].op = "EnqueueBlocking"
                       /\ pc[t] \in {"WbRead", "WbWait", "WbSleep", "Copy", "Publish",
                                     "WakeReader", "Ret"}}

\* C36: of two producers in EnqueueBlocking that hold tickets T1 < T2 of
\* the same node, the holder of T2 copies and commits its item only after
\* the holder of T1 has committed its item and the consumer has dequeued
\* it.
C36_ArrivalOrder ==
    \A p \in TicketHolders : \A q \in TicketHolders :
        (TicketsBefore(p) < TicketsBefore(q) /\ pc[q] \in {"Copy", "Publish"}) =>
            /\ pc[p] \in {"WakeReader", "Ret"}
            /\ WokenDone > TicketsBefore(p)

(* ------------------- claims about suspending calls -------------------- *)

\* C29: a thread that is inside Queue::Enqueue or Queue::DequeueNext, the
\* IncorporateNewSubqueues, AddSubqueue and RemoveSubqueue they call
\* included, is not in MutexGrab, does not hold a Mutex, and is not in
\* FutexWait on a node of a ring.
C29_NeverSuspends ==
    \A t \in DOMAIN qpc :
        qloc[t].op \in {"Enqueue", "DequeueNext"} =>
            /\ mpc[t] = "Out"
            /\ pc[t] \notin {"WbSleep", "DqbSleep"}

(* ------------- processes that map the pool at different addresses ----- *)

\* The processes that have the pool open.
Processes == 1 .. 2

\* array_length of the ring that is tried.
ShmNodes == 2

\* The pool offsets of the buckets: the map's array, and behind it the
\* blocks AllocateForType<Bucket>() can hand out, one per key.
BucketOffsets == 0 .. NumBuckets + MaxKey

\* Pool::GetOffset(array) of the ring's array, behind the buckets.
ArrayOffset == NumBuckets + MaxKey + 1

\* The size of the pool.
PoolEnd == ArrayOffset + ShmNodes

\* Where mmap(nullptr, ...) can put the pool: two mappings that are one
\* block apart and one that is further away than the pool is long.
Bases == {PoolEnd, PoolEnd + 1, 2 * PoolEnd + 1}

\* nullptr
NullPointer == 0

\* history: the process has not computed the address of a node yet.
NoNode == [index |-> 0, address |-> NullPointer]

\* What a process does with a bucket it reaches through a pointer that is
\* no address of a bucket in its own mapping: the access faults.
Fault == -2

\* Pool::AtOffset in process p.
AtOffset(p, offset) == base[p] + offset

\* Pool::GetOffset in process p.
GetOffset(p, address) == address - base[p]

\* The pool as Pool::Pool, the SharedHashmapInt constructor of the first
\* process and the later constructors leave it: no ring, no bucket occupied,
\* every process with its own base address.
ShmInit ==
    /\ base \in [Processes -> Bases]
    /\ shm = [created |-> FALSE, array |-> NullPointer, array_offset |-> 0,
              bucket |-> [i \in 0 .. NumBuckets - 1 |->
                             [occupied |-> FALSE, key |-> Garbage, next |-> NullPointer,
                              link |-> NullBucket]]]
    /\ proc = [p \in Processes |-> [queue_ |-> FALSE, node |-> NoNode, stray |-> FALSE,
                                    bucket |-> NullBucket]]
    /\ UnusedRing
    /\ UnusedMutex
    /\ UnusedQueue
    /\ UnusedPool
    /\ UnusedMap

ShmFrame ==
    UNCHANGED base /\ UNCHANGED ringVars /\ UNCHANGED mutexVars /\ UNCHANGED queueVars
    /\ UNCHANGED poolVars /\ UNCHANGED mapVars

\* The process has not been ended by a fault.
Alive(p) == proc[p].bucket # Fault

\* MpscQueue::DoCreate in process p: queue_->array holds p's pointer to the
\* array and queue_->array_offset its offset.
ShmCreate(p) ==
    /\ Alive(p)
    /\ ~shm.created
    /\ shm' = [shm EXCEPT !.created = TRUE,
                          !.array = AtOffset(p, ArrayOffset),
                          !.array_offset = GetOffset(p, AtOffset(p, ArrayOffset))]
    /\ proc' = [proc EXCEPT ![p].queue_ = TRUE]
    /\ ShmFrame

\* MpscQueue::DoLoad in process p: queue_->array = AtOffset(array_offset).
ShmLoad(p) ==
    /\ Alive(p)
    /\ shm.created /\ ~proc[p].queue_
    /\ shm' = [shm EXCEPT !.array = AtOffset(p, shm.array_offset)]
    /\ proc' = [proc EXCEPT ![p].queue_ = TRUE]
    /\ ShmFrame

\* DoEnqueue's write_at = queue_->array + old_head and DequeueNext's
\* read_at = queue_->array + tail_index_ in process p, for node index.
ShmNode(p, index) ==
    /\ Alive(p)
    /\ proc[p].queue_
    /\ proc' = [proc EXCEPT ![p].node = [index |-> index, address |-> shm.array + index]]
    /\ UNCHANGED shm
    /\ ShmFrame

\* The loop of FindBucket in process p from the bucket at offset cur on:
\* the bucket it returns, or Fault when bucket->next is no address of the
\* next bucket in p's mapping.
RECURSIVE ShmWalk(_, _, _)
ShmWalk(p, cur, key) ==
    LET b == shm.bucket[cur]
    IN  IF ~b.occupied \/ b.key = key \/ b.next = NullPointer THEN cur
        ELSE IF GetOffset(p, b.next) = b.link THEN ShmWalk(p, b.link, key)
        ELSE Fault

\* The bucket AllocateForType<Bucket>() returns.
ShmNewBucket == Cardinality(DOMAIN shm.bucket)

\* AddOrSet's stores once FindBucket has returned the bucket at offset
\* found; stray tells that the walk had left the chain.
ShmSet(p, found, key, stray) ==
    LET chain == shm.bucket[found].occupied /\ shm.bucket[found].key # key
        bucket == IF chain THEN ShmNewBucket ELSE found
    IN  /\ bucket \in BucketOffsets
        /\ shm' = [shm EXCEPT !.bucket =
                      [i \in DOMAIN shm.bucket \cup {bucket} |->
                          IF i = bucket
                          THEN [occupied |-> TRUE, key |-> key,
                                next |-> IF chain THEN NullPointer ELSE shm.bucket[i].next,
                                link |-> IF chain THEN NullBucket ELSE shm.bucket[i].link]
                          ELSE IF i = found
                               THEN [shm.bucket[i] EXCEPT !.next = AtOffset(p, bucket),
                                                          !.link = bucket]
                               ELSE shm.bucket[i]]]
        /\ proc' = [proc EXCEPT ![p].bucket = bucket,
                                ![p].stray = proc[p].stray \/ stray]

\* SharedHashmapInt::AddOrSet(key, value) in process p.  A walk that leaves
\* the chain reads memory that is no bucket of the map: the call faults, or
\* goes on with whatever that memory makes FindBucket return.
ShmAddOrSet(p, key) ==
    /\ Alive(p)
    /\ LET found == ShmWalk(p, HashKey(key) % NumBuckets, key)
       IN  IF found # Fault
           THEN ShmSet(p, found, key, FALSE)
           ELSE \/ /\ proc' = [proc EXCEPT ![p].stray = TRUE, ![p].bucket = Fault]
                   /\ UNCHANGED shm
                \/ \E wild \in DOMAIN shm.bucket : ShmSet(p, wild, key, TRUE)
    /\ ShmFrame

ShmNext ==
    \/ \E p \in Processes : ShmCreate(p)
    \/ \E p \in Processes : ShmLoad(p)
    \/ \E p \in Processes : \E index \in 0 .. ShmNodes - 1 : ShmNode(p, index)
    \/ \E p \in Processes : \E key \in Keys : ShmAddOrSet(p, key)

SpecShm == ShmInit /\ [][ShmNext]_vars

(* --------------------- claims about shared memory --------------------- *)

\* C30: every address a process computes from what the pool holds is the
\* address, in its own mapping, of the thing the pool's offset names: the
\* node of index i of the ring is at AtOffset(array_offset + i) for every
\* process that has created or loaded the ring, whichever processes have
\* loaded it since, and no walk of a bucket's overflow chain leaves the chain.
C30_OffsetsOnly ==
    \A p \in Processes :
        /\ proc[p].node.address # NullPointer =>
               proc[p].node.address = AtOffset(p, shm.array_offset + proc[p].node.index)
        /\ ~proc[p].stray

(* ---------------------- claims about queue names ---------------------- *)

\* C21: with the fetches made one after the other, every fetch of a name
\* returns a handle at the offset the first fetch of that name returned,
\* that offset is the header of a Queue that was created, and two different
\* names have different offsets, so that what is enqueued under one name is
\* never dequeued under another.
C21_Rendezvous ==
    /\ fetched.op = "FetchQueue" => fetched.value = opened[fetched.key]
    /\ \A name \in Keys :
           opened[name] # NotInserted => opened[name] \in 0 .. fetched.adds - 1
    /\ \A name, other \in Keys :
           (name # other /\ opened[name] # NotInserted /\ opened[other] # NotInserted)
               => opened[name] # opened[other]

(* ------------------- claims about subqueue descriptors ---------------- *)

\* num_references of descriptor i.
References(i) == queue.queue_offsets[i].num_references

\* C31: a thread whose AddSubqueue has incremented num_references holds a
\* reference on a descriptor that is not dead and whose offset is a ring
\* that is allocated; no step takes num_references from 0 to another value
\* but MakeOwnSubqueue's store on the descriptor it has claimed; and an
\* AddSubqueue that returns false has read 0 and changes nothing of the
\* Queue or of the handle's subqueues_.
C31_AddSubqueue ==
    /\ [](\A t \in DOMAIN qpc :
              qpc[t] = "AddLoad" =>
                  LET d == queue.queue_offsets[qloc[t].i]
                  IN  d.num_references >= 1 /\ d.dead = 0 /\ d.offset \in pool)
    /\ [][/\ \A i \in Descriptors :
                 (References(i) = 0 /\ References(i)' # 0) =>
                     \E t \in DOMAIN qpc :
                         qpc[t] = "MoRefs" /\ qpc'[t] = "MoValid" /\ qloc[t].i = i
          /\ \A t \in DOMAIN qpc :
                 (qpc[t] = "AddRead" /\ qpc'[t] \notin {"AddRead", "AddCas"}) =>
                     /\ References(qloc[t].i) = 0
                     /\ queue' = queue
                     /\ handle'[t].subqueues = handle[t].subqueues
                     /\ handle'[t].last_num_subqueues = handle[t].last_num_subqueues]_vars

\* C31 witness: a producer handle has taken a reference on the ring of the
\* second consumer handle that was given the descriptor, whose first ring
\* was freed.
C31_Witness ==
    \E t \in DOMAIN qpc :
        /\ qpc[t] = "AddLoad"
        /\ queue.subqueue_updates = 3
        /\ References(qloc[t].i) = 2
        /\ handle[t].last_subqueue_updates = 2

\* The threads that have descriptor i for their own handle: they have
\* claimed it in MakeOwnSubqueue and their handle is not deleted.
OwnersOf(i) ==
    {t \in DOMAIN qpc : \/ qpc[t] = "MoCreate" /\ qloc[t].i = i
                        \/ handle[t].live /\ handle[t].my_subqueue_index = i}

\* C32: no descriptor is held by two consumer handles, whether they are
\* constructed or still in MakeOwnSubqueue; a descriptor that is held is
\* not dead; and the step of MakeOwnSubqueue that claims a descriptor finds
\* it neither LIVE nor DYING, held by nobody and cached by nobody.
C32_Exclusive ==
    /\ [](\A i \in Descriptors :
              /\ Cardinality(OwnersOf(i)) <= 1
              /\ OwnersOf(i) # {} => queue.queue_offsets[i].dead = 0)
    /\ [][\A t \in DOMAIN qpc :
              (qpc[t] = "MoScan" /\ qpc'[t] = "MoCreate") =>
                  LET d == queue.queue_offsets[qloc[t].i]
                  IN  /\ ~IsLive(d) /\ ~IsDying(d)
                      /\ OwnersOf(qloc[t].i) = {}
                      /\ Caching(qloc[t].i) = {}
                      /\ OwnersOf(qloc[t].i)' = {t}]_vars

\* C32 witness: two threads are in MakeOwnSubqueue at the same time, each
\* with a descriptor it has claimed, while a third handle is LIVE.
C32_Witness ==
    \E t, u \in DOMAIN qpc :
        /\ t # u
        /\ qpc[t] = "MoCreate" /\ qpc[u] = "MoCreate"
        /\ qloc[t].i # qloc[u].i
        /\ IsLive(queue.queue_offsets[0])

\* The threads whose consumer handle has been deleted, ~Queue having
\* returned, and not constructed again.
Deleted == {t \in DOMAIN qpc : /\ Reads(handle[t]) /\ ~handle[t].live
                               /\ handle[t].built >= 1 /\ qpc[t] = "QIdle"}

\* The producer handles whose latest IncorporateNewSubqueues read the
\* subqueue_updates the Queue has now, and went through every descriptor.
UpToDate == {u \in DOMAIN qpc : /\ ~Reads(handle[u])
                                /\ handle[u].last_subqueue_updates = queue.subqueue_updates}

C35_TooManyConsumers ==
    /\ \A t \in DOMAIN qpc :
           (handle[t].role = "reinitializing" /\ qloc[t].i = kMaxConsumers) =>
               qpc[t] = "QAbort"
    /\ DOMAIN queue.queue_offsets = Descriptors
    /\ \A i \in Descriptors :
           queue.queue_offsets[i] = [offset |-> i, valid |-> 1, dead |-> 0, num_references |-> 1]
    /\ pool = RingIds
    /\ queue.num_subqueues = kMaxConsumers
    /\ queue.subqueue_updates = kMaxConsumers

(* --------------------- the pool blocks of a hashmap ------------------- *)

\* The pool blocks the constructor allocates in a pool that was empty:
\* the ShmData header at the map's offset, the array of buckets and the
\* Mutex.
MapBlocks == {[kind |-> "ShmData", at |-> 0], [kind |-> "Bucket[]", at |-> 0],
              [kind |-> "Mutex", at |-> 0]}

\* Pool::IsMemoryUsed(offset), offset being the map's offset.
IsMemoryUsed == [kind |-> "ShmData", at |-> 0] \in allocations

\* The map right after its constructor has run in an empty pool;
\* allocations holds the blocks of the pool that are in use.
MapFreeInit ==
    /\ MapCreated
    /\ UnusedRing /\ UnusedMutex /\ UnusedQueue /\ UnusedShm
    /\ header = <<>>
    /\ block_bytes = 0
    /\ block_allocation = <<>>
    /\ scan = <<>>
    /\ allocations = MapBlocks
    /\ result = <<>>

MapFreeFrame ==
    /\ UNCHANGED <<key_type, opened>>
    /\ UNCHANGED <<header, block_bytes, block_allocation, scan, result>>
    /\ UNCHANGED ringVars /\ UNCHANGED mutexVars /\ UNCHANGED queueVars /\ UNCHANGED shmVars

\* SharedHashmapInt::AddOrSet(key, value) with the blocks it takes from the
\* pool: a Bucket when the key goes to the end of a chain, and the copy of
\* the key ConvertKey makes for a string map.
MapAddOrSet(key, value) ==
    /\ fetched.op # "Free"
    /\ fetched.adds < MaxAdds
    /\ LET found == FindBucket(key)
           chained == data[found].occupied /\ ~CompareKeys(data[found].key, key)
           bucket == IF chained THEN NewBucket ELSE found
       IN  /\ SetBucket(found, bucket, key, value)
           /\ allocations' = allocations
                  \cup (IF chained THEN {[kind |-> "Bucket", at |-> bucket]} ELSE {})
                  \cup (IF key_type = "string"
                        THEN {[kind |-> "key", at |-> NextOffset]} ELSE {})
    /\ latest' = [latest EXCEPT ![key] = value]
    /\ fetched' = [op |-> "AddOrSet", adds |-> fetched.adds + 1, key |-> key,
                   found |-> FALSE, value |-> Garbage]
    /\ MapFreeFrame

\* The buckets Free reaches from bucket on through next.
RECURSIVE Chain(_)
Chain(bucket) ==
    IF bucket = NullBucket THEN {} ELSE {bucket} \cup Chain(data[bucket].next)

\* SharedHashmapInt::Free(): FreeType<Bucket> of every bucket chained to
\* the array, FreeArray<Bucket>(data_, num_buckets_), FreeType<Mutex>(lock_).
MapFree ==
    /\ fetched.op # "Free"
    /\ allocations' = allocations \
           ({[kind |-> "Bucket", at |-> b] :
                 b \in UNION {Chain(data[i].next) : i \in 0 .. NumBuckets - 1}}
            \cup {[kind |-> "Bucket[]", at |-> 0], [kind |-> "Mutex", at |-> 0]})
    /\ fetched' = [fetched EXCEPT !.op = "Free"]
    /\ UNCHANGED <<data, shared_keys, latest>>
    /\ MapFreeFrame

MapFreeNext ==
    \/ \E key \in Keys : \E value \in Values : MapAddOrSet(key, value)
    \/ MapFree

SpecMapFree == MapFreeInit /\ [][MapFreeNext]_vars

\* C37: after SharedHashmap::Free no block the map allocated is in use:
\* the pool's blocks are as they were before the map was constructed, and
\* IsMemoryUsed(offset) is false.
C37_FreeReleasesAll ==
    fetched.op = "Free" => (allocations = {} /\ ~IsMemoryUsed)

(* -------------------- threads that fetch a queue by name -------------- *)

\* The threads that call FetchQueue.
Fetchers == 1 .. 2

\* The locals of a thread that is not in DoFetchQueue.
NoFetch == [name |-> 0, offset |-> NotInserted]

\* queue_names_ as its constructor leaves it and the threads outside
\* DoFetchQueue; allocations holds the RawQueue headers Queue::Create has
\* allocated and, as history, the name each was created for.
FetchRaceInit ==
    /\ MapCreated /\ key_type = "string"
    /\ UnusedRing /\ UnusedMutex /\ UnusedShm
    /\ header = <<>> /\ block_bytes = 0 /\ block_allocation = <<>>
    /\ scan = <<>> /\ allocations = {} /\ result = <<>>
    /\ queue = <<>> /\ handle = <<>> /\ pool = {} /\ call = <<>>
    /\ qpc = [t \in Fetchers |-> "Idle"]
    /\ qloc = [t \in Fetchers |-> NoFetch]

FetchRaceFrame ==
    /\ UNCHANGED <<key_type, opened>>
    /\ UNCHANGED <<header, block_bytes, block_allocation, scan, result>>
    /\ UNCHANGED <<queue, handle, pool, call>>
    /\ UNCHANGED ringVars /\ UNCHANGED mutexVars /\ UNCHANGED shmVars

\* A thread calls FetchQueue(name); the calls that may still add a name
\* are bounded by MaxAdds.
FqCall(t, name) ==
    /\ qpc[t] = "Idle"
    /\ fetched.adds + Cardinality({u \in Fetchers : qpc[u] \notin {"Idle", "FqRet"}}) < MaxAdds
    /\ qpc' = [qpc EXCEPT ![t] = "FqFetch"]
    /\ qloc' = [qloc EXCEPT ![t] = [name |-> name, offset |-> NotInserted]]
    /\ UNCHANGED <<data, shared_keys, latest, fetched, allocations>>
    /\ FetchRaceFrame

\* DoFetchQueue: queue_names_.Fetch(name, &offset), one critical section of
\* the map's lock; on a hit the handle is loaded from the offset.
FqFetch(t) ==
    /\ qpc[t] = "FqFetch"
    /\ LET bucket == FindBucket(qloc[t].name)
           hit == CompareKeys(data[bucket].key, qloc[t].name)
       IN  /\ qpc' = [qpc EXCEPT ![t] = IF hit THEN "FqRet" ELSE "FqCreate"]
           /\ qloc' = [qloc EXCEPT ![t].offset = IF hit THEN data[bucket].value ELSE @]
    /\ UNCHANGED <<data, shared_keys, latest, fetched, allocations>>
    /\ FetchRaceFrame

\* DoFetchQueue: Queue::Create allocates a new header in the pool.
FqCreate(t) ==
    /\ qpc[t] = "FqCreate"
    /\ LET offset == Cardinality(allocations)
       IN  /\ allocations' = allocations \cup
                  {[kind |-> "RawQueue", at |-> offset, name |-> qloc[t].name]}
           /\ qloc' = [qloc EXCEPT ![t].offset = offset]
    /\ qpc' = [qpc EXCEPT ![t] = "FqAddOrSet"]
    /\ UNCHANGED <<data, shared_keys, latest, fetched>>
    /\ FetchRaceFrame

\* DoFetchQueue: queue_names_.AddOrSet(name, queue_handle->GetOffset()), a
\* second critical section of the map's lock.
FqAddOrSet(t) ==
    /\ qpc[t] = "FqAddOrSet"
    /\ LET name == qloc[t].name
           found == FindBucket(name)
           chained == data[found].occupied /\ ~CompareKeys(data[found].key, name)
       IN  SetBucket(found, IF chained THEN NewBucket ELSE found, name, qloc[t].offset)
    /\ latest' = [latest EXCEPT ![qloc[t].name] = qloc[t].offset]
    /\ fetched' = [op |-> "FetchQueue", adds |-> fetched.adds + 1, key |-> qloc[t].name,
                   found |-> FALSE, value |-> qloc[t].offset]
    /\ qpc' = [qpc EXCEPT ![t] = "FqRet"]
    /\ UNCHANGED <<qloc, allocations>>
    /\ FetchRaceFrame

\* The caller is done with the handle DoFetchQueue returned.
FqReturn(t) ==
    /\ qpc[t] = "FqRet"
    /\ qpc' = [qpc EXCEPT ![t] = "Idle"]
    /\ qloc' = [qloc EXCEPT ![t] = NoFetch]
    /\ UNCHANGED <<data, shared_keys, latest, fetched, allocations>>
    /\ FetchRaceFrame

FetchRaceNext ==
    \/ \E t \in Fetchers : \E name \in Keys : FqCall(t, name)
    \/ \E t \in Fetchers : FqFetch(t)
    \/ \E t \in Fetchers : FqCreate(t)
    \/ \E t \in Fetchers : FqAddOrSet(t)
    \/ \E t \in Fetchers : FqReturn(t)

SpecFetchRace == FetchRaceInit /\ [][FetchRaceNext]_vars

\* C38: when threads call FetchQueue with the same name at the same time,
\* the handles they get are on the same Queue header, and one header only
\* is allocated for the name.
C38_ConcurrentFetch ==
    /\ \A t, u \in Fetchers :
           (qpc[t] = "FqRet" /\ qpc[u] = "FqRet" /\ qloc[t].name = qloc[u].name) =>
               qloc[t].offset = qloc[u].offset
    /\ \A name \in Keys : Cardinality({a \in allocations : a.name = name}) <= 1

(* ------------------ processes that open an existing pool -------------- *)

\* A pool built by Pool(size) in fresh shared memory, nothing allocated,
\* and two threads that grab and release its allocation_lock, which is the
\* Mutex of this run.
PoolOpenInit ==
    /\ \E size \in PoolSizes :
          /\ header = BuildNewPool(MapShm(size)).header
          /\ block_bytes = BuildNewPool(MapShm(size)).block_bytes
          /\ block_allocation = BuildNewPool(MapShm(size)).block_allocation
    /\ scan = NoScan
    /\ allocations = {}
    /\ result = NoResult
    /\ state = mutex_init
    /\ mpc = [t \in 1 .. 2 |-> "Out"]
    /\ ndebug \in BOOLEAN
    /\ aborted = FALSE
    /\ release = [t \in 1 .. 2 |-> NoRelease]
    /\ UnusedRing
    /\ UnusedQueue
    /\ UnusedMap
    /\ UnusedShm

\* Pool::Pool(size) in a process that finds the segment existing:
\* BuildExistingPool sets the object's own header_, block_allocation_ and
\* data_, and the constructor then runs MutexInit on allocation_lock.
PoolOpen ==
    /\ ~aborted
    /\ state' = mutex_init
    /\ UNCHANGED <<mpc, ndebug, aborted, release>>
    /\ UNCHANGED ringVars /\ UNCHANGED queueVars /\ UNCHANGED memVars

PoolOpenNext ==
    \/ MutexNext
    \/ PoolOpen

SpecPoolOpen == PoolOpenInit /\ [][PoolOpenNext]_vars

\* C39: the construction of a Pool over an existing segment changes
\* neither size, num_blocks and the allocation bitmap nor the state word of
\* allocation_lock: a lock that is held stays held.
C39_AttachFrame ==
    [][PoolOpen => UNCHANGED <<header, block_bytes, block_allocation, state>>]_vars

(* ------------------------ the end of a Queue -------------------------- *)

\* The pool block of the Queue's RawQueue.
QueueBlock == [kind |-> "RawQueue", at |-> 0]

\* A queue whose consumer handles are constructed and destroyed by two
\* threads; allocations holds the RawQueue's block while it is in use, pool
\* the rings' blocks.
TeardownInit ==
    /\ QueueCreated(<<"reinitializing", "reinitializing">>)
    /\ UnusedMutex
    /\ header = <<>> /\ block_bytes = 0 /\ block_allocation = <<>>
    /\ scan = <<>> /\ allocations = {QueueBlock} /\ result = <<>>

\* What the steps of FreeQueue leave alone.
TeardownFrame ==
    /\ RingUntouched /\ UNCHANGED <<sent, deq, accepted, solo>>
    /\ UNCHANGED mutexVars /\ UNCHANGED mapVars /\ UNCHANGED shmVars
    /\ UNCHANGED <<header, block_bytes, block_allocation, scan, result>>

(* The last handle on the queue calls FreeQueue, every other thread being
   done with the queue: IncorporateNewSubqueues starts. *)
QCallFreeQueue(t) ==
    /\ qpc[t] = "QIdle"
    /\ handle[t].live /\ QueueBlock \in allocations
    /\ \A u \in DOMAIN qpc \ {t} : qpc[u] = "QIdle" /\ ~handle[u].live
    /\ qpc' = [qpc EXCEPT ![t] = "IncRead"]
    /\ qloc' = [qloc EXCEPT ![t] = [NoQLoc EXCEPT !.op = "FreeQueue"]]
    /\ UNCHANGED <<queue, handle, pool, call, allocations>>
    /\ TeardownFrame

(* FreeQueue: the for loop over subqueues_ starts at the first entry that
   is set. *)
QFreeLoop(t) ==
    /\ qpc[t] = "IncDone" /\ qloc[t].op = "FreeQueue"
    /\ qloc' = [qloc EXCEPT ![t].i = NextSubqueue(handle[t], 0)]
    /\ qpc' = [qpc EXCEPT ![t] =
                   IF NextSubqueue(handle[t], 0) # NoRing THEN "FreeRing" ELSE "FreeHeader"]
    /\ UNCHANGED <<queue, handle, pool, call, allocations>>
    /\ TeardownFrame

(* FreeQueue: subqueues_[i]->FreeQueue() gives the ring back to the pool;
   subqueues_[i] stays set. *)
QFreeRing(t) ==
    /\ qpc[t] = "FreeRing"
    /\ pool' = pool \ {handle[t].subqueues[qloc[t].i]}
    /\ qloc' = [qloc EXCEPT ![t].i = NextSubqueue(handle[t], qloc[t].i + 1)]
    /\ qpc' = [qpc EXCEPT ![t] =
                   IF NextSubqueue(handle[t], qloc[t].i + 1) # NoRing
                   THEN "FreeRing" ELSE "FreeHeader"]
    /\ UNCHANGED <<queue, handle, call, allocations>>
    /\ TeardownFrame

(* FreeQueue: pool_->FreeType<RawQueue>(queue_), and the call returns. *)
QFreeHeader(t) ==
    /\ qpc[t] = "FreeHeader"
    /\ allocations' = allocations \ {QueueBlock}
    /\ qpc' = [qpc EXCEPT ![t] = "QIdle"]
    /\ qloc' = [qloc EXCEPT ![t] = NoQLoc]
    /\ UNCHANGED <<queue, handle, pool, call>>
    /\ TeardownFrame

\* Handles are constructed while the queue exists, and are destroyed; the
\* last one calls FreeQueue before it is destroyed.
TeardownNext ==
    \/ \E t \in DOMAIN qpc : QueueBlock \in allocations /\ QConstruct(t)
    \/ \E t \in DOMAIN qpc : QMoScan(t)
    \/ \E t \in DOMAIN qpc : QMoCreate(t)
    \/ \E t \in DOMAIN qpc : QMoOffset(t)
    \/ \E t \in DOMAIN qpc : QMoRefs(t)
    \/ \E t \in DOMAIN qpc : QMoValid(t)
    \/ \E t \in DOMAIN qpc : QMoUpdates(t)
    \/ \E t \in DOMAIN qpc : QMoNum(t)
    \/ \E t \in DOMAIN qpc : QCallFreeQueue(t)
    \/ \E t \in DOMAIN qpc : QIncRead(t)
    \/ \E t \in DOMAIN qpc : QIncScan(t)
    \/ \E t \in DOMAIN qpc : QFreeLoop(t)
    \/ \E t \in DOMAIN qpc : QFreeRing(t)
    \/ \E t \in DOMAIN qpc : QFreeHeader(t)
    \/ \E t \in DOMAIN qpc : QDestroy(t)
    \/ \E t \in DOMAIN qpc : QDtNum(t)
    \/ \E t \in DOMAIN qpc : QDtUpdates(t)
    \/ \E t \in DOMAIN qpc : QRemXadd(t)
    \/ \E t \in DOMAIN qpc : QRemFree(t)
    \/ \E t \in DOMAIN qpc : QRemDead(t)

SpecTeardown == TeardownInit /\ [][TeardownNext]_vars

\* C40: a handle that has called FreeQueue and is destroyed afterwards
\* gives no block to Pool::Free a second time (RemoveSubqueue does not free
\* a ring FreeQueue has freed) and its destructor does not write to the
\* RawQueue that FreeQueue has freed.
C40_NoDoubleFree ==
    \A t \in DOMAIN qpc :
        /\ qpc[t] \in {"RemFree", "FreeRing"} => handle[t].subqueues[qloc[t].i] \in pool
        /\ qpc[t] = "FreeHeader" => QueueBlock \in allocations
        /\ qpc[t] \in {"DtNum", "DtUpdates", "RemXadd", "RemFree", "RemDead"} =>
               QueueBlock \in allocations

====
